---- MODULE Spec2Model ----
(***************************************************************************)
(* The task workflow of the job-order tracking backend                     *)
(* (backend/core): fan-out of a JobOrder into Devices and Tasks, the       *)
(* technician's start/end, the quality, tester and supervisor decisions,   *)
(* and the notifications they write.                                       *)
(***************************************************************************)
EXTENDS Integers, Sequences, FiniteSets, Bags, TLC

(* ----------------------------- bounds ---------------------------------- *)
\* The clock (timezone.now()) runs from 0 to MaxClock ticks.
MaxClock == 2
\* Clock ticks per second: start_time and end_time are finer than a second.
TicksPerSecond == 2
\* At most this many SupervisorReview rows are written.
MaxSupervisorReviews == 2
\* Requests served at the same time.
MaxWorkers == 2
\* At most this many TesterReview rows are written.
MaxTesterReviews == 1
\* The largest total_devices of a JobOrder whose fan-out is examined.
MaxTotalDevices == 2
MaxTasks == 2

(* ----------------------------- users ----------------------------------- *)
NoUser == "none"
NoTime == -1

Users == {"tech_1", "tech_2", "qi_1", "qi_2", "tester_1", "super_1", "pe_1", "admin"}

Role(u) ==
  CASE u \in {"tech_1", "tech_2"} -> "technician"
    [] u \in {"qi_1", "qi_2"}     -> "quality"
    [] u = "tester_1"             -> "tester"
    [] u = "super_1"              -> "supervisor"
    [] u = "pe_1"                 -> "planning"
    [] OTHER                      -> "admin"

\* qi_2 is a deactivated account: it cannot log in, and is_active=True
\* filters leave it out.
IsActive(u) == u # "qi_2"

\* Who can send a request: the accounts that can log in.
Actors == {u \in Users : IsActive(u)}
\* The accounts with a role of the shop floor (no superuser).
Staff == Actors \ {"admin"}

(* ------------------------ job templates -------------------------------- *)
NoJob == "none"
Jobs == {"job_a", "job_ab", "job_empty"}

\* Process rows of a Job, in 'order'.
Processes(job) ==
  CASE job = "job_a" ->
         << [operation_name |-> "A", standard_time_seconds |-> 600,
             task_type |-> "technician", order |-> 1] >>
    [] job = "job_ab" ->
         << [operation_name |-> "A", standard_time_seconds |-> 600,
             task_type |-> "technician", order |-> 1],
            [operation_name |-> "B", standard_time_seconds |-> 300,
             task_type |-> "quality", order |-> 2] >>
    [] OTHER -> << >>

OrderCodes == {"JO-001"}

(* ----------------------------- state ----------------------------------- *)
VARIABLES
  now,              \* the clock, in ticks
  jobOrders,        \* table job_orders, in id order
  devices,          \* table devices
  tasks,            \* table tasks
  inspections,      \* table inspections
  testerReviews,    \* table tester_reviews
  supervisorReviews,\* table supervisor_reviews
  notifications,    \* table notifications
  reqs              \* the start/end requests being served, by worker

vars == <<now, jobOrders, devices, tasks, inspections, testerReviews,
          supervisorReviews, notifications, reqs>>

TaskStatuses == {"available", "in_progress", "done", "pending_qa", "qa_approved",
                 "pending_tester", "tester_approved", "pending_supervisor",
                 "supervisor_approved", "rejected", "completed"}

\* Task.get_status_display(): the label of a status of STATUS_CHOICES.
StatusDisplay(s) ==
  CASE s = "available"           -> "Available"
    [] s = "in_progress"         -> "In Progress"
    [] s = "done"                -> "Done"
    [] s = "pending_qa"          -> "Pending QA"
    [] s = "qa_approved"         -> "QA Approved"
    [] s = "pending_tester"      -> "Pending Tester"
    [] s = "tester_approved"     -> "Tester Approved"
    [] s = "pending_supervisor"  -> "Pending Supervisor"
    [] s = "supervisor_approved" -> "Supervisor Approved"
    [] s = "rejected"            -> "Rejected"
    [] s = "completed"           -> "Completed"
    [] OTHER                     -> s

TaskIds == 1..Len(tasks)
\* Ids a request may name: the rows of the table and one id past them.
TaskIdInputs == 1..(Len(tasks) + 1)
InspectionIdInputs == 1..(Len(inspections) + 1)

\* A task row no request holds.
NoTask ==
  [job_order |-> 0, device |-> 0, process |-> 0, operation_name |-> "",
   standard_time_seconds |-> 0, task_type |-> "", technician |-> NoUser,
   start_time |-> NoTime, end_time |-> NoTime, actual_time_seconds |-> NoTime,
   status |-> ""]

\* The server's workers; each serves one request at a time.
Workers == 1..MaxWorkers

\* The efficiency of a Task that has none (None, null in JSON).
NoEfficiency == -1

\* The body of an answer that is no status summary.
NoSummary == [s \in {} |-> 0]

IdleRequest ==
  [op |-> "none", actor |-> NoUser, task |-> 0, decision |-> "",
   comments |-> "", pc |-> "idle", code |-> 0, local |-> NoTask,
   failed |-> {}, efficiency |-> NoEfficiency, listed |-> {},
   summary |-> NoSummary, alerts |-> << >>]

Response(op, actor, target, code, err, shown) ==
  [op |-> op, actor |-> actor, target |-> target, code |-> code,
   err |-> err, shown |-> shown]

Init ==
  /\ now = 0
  /\ jobOrders = << >>
  /\ devices = << >>
  /\ tasks = << >>
  /\ inspections = << >>
  /\ testerReviews = << >>
  /\ supervisorReviews = << >>
  /\ notifications = EmptyBag
  /\ reqs = [w \in Workers |-> IdleRequest]

(* ----------------------------- clock ----------------------------------- *)
Tick ==
  /\ now < MaxClock
  /\ now' = now + 1
  /\ UNCHANGED <<jobOrders, devices, tasks, inspections, testerReviews,
                 supervisorReviews, notifications, reqs>>

(* --------------------------- permissions ------------------------------- *)
\* IsRoleRequired.has_permission for a list of allowed roles.
HasPermission(u, allowed_roles) ==
  \/ u = "admin"                \* is_superuser
  \/ allowed_roles = {}
  \/ Role(u) \in allowed_roles

IsTechnicianOrAll ==
  {"technician", "tester", "admin", "planning", "supervisor", "quality"}
\* An inspection permission that leaves the testers out.
IsQualityOrTesterOrAdmin_NoTester == {"quality", "admin"}

IsQualityOrTesterOrAdmin == {"quality", "tester", "admin"}
IsQualityOrTesterOrSupervisorOrAdmin ==
  {"quality", "tester", "supervisor", "admin"}

IsSupervisorOrPlanningOrAdmin == {"supervisor", "planning", "admin"}

IsSupervisorOrAdmin == {"supervisor", "admin"}
IsTesterOrAdmin == {"tester", "admin"}
IsPlanningOrAdmin == {"planning", "admin"}

(* ----------------------------- notifier -------------------------------- *)
\* create_notification: the Notification row it writes.
Notification(user, type, task) == [user |-> user, type |-> type, task |-> task]

\* The queryset without its is_active filter.
ActiveUsersOfRole_AnyUser(role) == {u \in Users : Role(u) = role}

\* User.objects.filter(role=role, is_active=True)
ActiveUsersOfRole(role) == {u \in Users : Role(u) = role /\ IsActive(u)}

\* One create_notification per user of a queryset.
NotifyEach(table, users, type, task) ==
  table (+) SetToBag({Notification(u, type, task) : u \in users})

\* A rejection that notifies nobody.
NotifyTechnician_Nobody(table, task, type, t) == table

\* "if task.technician: create_notification(task.technician.id, ...)"
NotifyTechnician(table, task, type, t) ==
  IF task.technician # NoUser
    THEN table (+) SetToBag({Notification(task.technician, type, t)})
    ELSE table

(* ----------------------------- fan-out --------------------------------- *)
\* f"{i:04d}": the decimal digits of i, zero-padded to 4.
Pad4(i) == << (i \div 1000) % 10, (i \div 100) % 10, (i \div 10) % 10, i % 10 >>

\* f"{order_code}-{i + 1:04d}"
SerialNumber(order_code, i) == << order_code, Pad4(i) >>

NewDevice(jo, order_code, i) ==
  [job_order |-> jo, serial_number |-> SerialNumber(order_code, i),
   current_status |-> "pending"]

NewTask(jo, dev, process) ==
  [job_order |-> jo, device |-> dev, process |-> process.order,
   operation_name |-> process.operation_name,
   standard_time_seconds |-> process.standard_time_seconds,
   task_type |-> process.task_type,
   technician |-> NoUser, start_time |-> NoTime, end_time |-> NoTime,
   actual_time_seconds |-> NoTime, status |-> "available"]

\* The Device rows the signal bulk-creates for job order jo.
FanOutDevices(jo, order_code, n) ==
  [i \in 1..n |-> NewDevice(jo, order_code, i)]

\* A fan-out that creates one Task per Device, for the first Process only.
FanOutTasks_OnePerDevice(jo, firstDev, n, processes) ==
  [k \in 1..n |-> NewTask(jo, firstDev + (k - 1), processes[1])]

\* The Task rows: for each created device, one per process, in order.
FanOutTasks(jo, firstDev, n, processes) ==
  LET p == Len(processes) IN
  [k \in 1..(n * p) |->
     NewTask(jo, firstDev + ((k - 1) \div p), processes[((k - 1) % p) + 1])]

\* A signal that runs the fan-out for every JobOrder.
FanOutRuns_Always(job) == TRUE

\* post_save(JobOrder): "if created and instance.job", no-op without processes.
FanOutRuns(job) == job # NoJob /\ Len(Processes(job)) > 0

\* Device.serial_number is unique: bulk_create of the Devices raises
\* IntegrityError, and inserts none of them, when one of the serials is taken.
FanOutRejected(code, n) ==
  \E i \in 1..n, d \in 1..Len(devices) :
     devices[d].serial_number = SerialNumber(code, i)

\* The error of the signal handler leaves the view as a 500, after the
\* JobOrder row was inserted.
CreateJobOrderResponse(a, job, code, n) ==
  IF ~ HasPermission(a, IsPlanningOrAdmin)
    THEN Response("create_job_order", a, 0, 403, "detail", "")
  ELSE IF \E j \in 1..Len(jobOrders) : jobOrders[j].order_code = code
    THEN Response("create_job_order", a, 0, 400, "order_code", "")
  ELSE IF FanOutRuns(job) /\ FanOutRejected(code, n)
    THEN Response("create_job_order", a, Len(jobOrders) + 1, 500,
                  "IntegrityError", "")
  ELSE Response("create_job_order", a, Len(jobOrders) + 1, 201, "", "")

CreateJobOrder(a, job, code, n) ==
  LET r == CreateJobOrderResponse(a, job, code, n)
      jo == Len(jobOrders) + 1
  IN
  /\ IF r.code \in {201, 500}
       THEN /\ jobOrders' = Append(jobOrders,
                 [job |-> job, order_code |-> code, total_devices |-> n])
            /\ IF r.code = 201 /\ FanOutRuns(job)
                 THEN /\ devices' = devices \o FanOutDevices(jo, code, n)
                      /\ tasks' = tasks \o
                           FanOutTasks(jo, Len(devices) + 1, n, Processes(job))
                 ELSE UNCHANGED <<devices, tasks>>
       ELSE UNCHANGED <<jobOrders, devices, tasks>>
  /\ UNCHANGED <<now, inspections, testerReviews, supervisorReviews, notifications,
                 reqs>>

\* PUT /job-orders/{id}/ with JobOrderSerializer: open to every authenticated
\* user, order_code stays unique among the other rows.
UpdateJobOrderResponse(a, jo, code) ==
  IF jo \notin 1..Len(jobOrders)
    THEN Response("update_job_order", a, jo, 404, "detail", "")
  ELSE IF \E j \in 1..Len(jobOrders) :
            j # jo /\ jobOrders[j].order_code = code
    THEN Response("update_job_order", a, jo, 400, "order_code", "")
  ELSE Response("update_job_order", a, jo, 200, "", "")

\* The save of an existing row sends post_save with created = False: the
\* handler does nothing.
UpdateJobOrder(a, jo, job, code, n) ==
  /\ IF UpdateJobOrderResponse(a, jo, code).code = 200
       THEN jobOrders' = [jobOrders EXCEPT
              ![jo] = [job |-> job, order_code |-> code, total_devices |-> n]]
       ELSE UNCHANGED jobOrders
  /\ UNCHANGED <<now, devices, tasks, inspections, testerReviews,
                 supervisorReviews, notifications, reqs>>

\* The handler called again, with created = True, on the stored row jo.
create_devices_and_tasks_for_job_order(jo) ==
  LET instance == jobOrders[jo] IN
  /\ jo \in 1..Len(jobOrders)
  /\ IF /\ FanOutRuns(instance.job)
        /\ ~ FanOutRejected(instance.order_code, instance.total_devices)
       THEN /\ devices' = devices \o
                 FanOutDevices(jo, instance.order_code, instance.total_devices)
            /\ tasks' = tasks \o
                 FanOutTasks(jo, Len(devices) + 1, instance.total_devices,
                             Processes(instance.job))
       ELSE UNCHANGED <<devices, tasks>>
  /\ UNCHANGED <<now, jobOrders, inspections, testerReviews, supervisorReviews,
                 notifications, reqs>>

(* ------------------------- single task create -------------------------- *)
\* A serial of no fan-out, as a user types it.
OtherSerial == << "DEV001", << >> >>

\* The row of devices with this serial, 0 for none (serial_number is unique).
DeviceOfSerial(serial) ==
  IF \E d \in 1..Len(devices) : devices[d].serial_number = serial
    THEN CHOOSE d \in 1..Len(devices) : devices[d].serial_number = serial
    ELSE 0

\* POST /tasks/ with TaskSimpleCreateSerializer: open to every role of
\* IsTechnicianOrAll; job_order must be the id of a row.
CreateTaskResponse(a, jo) ==
  IF ~ HasPermission(a, IsTechnicianOrAll)
    THEN Response("create_task", a, 0, 403, "detail", "")
  ELSE IF jo \notin 1..Len(jobOrders)
    THEN Response("create_task", a, 0, 400, "job_order", "")
  ELSE Response("create_task", a, Len(tasks) + 1, 201, "", "")

\* TaskSimpleCreateSerializer.create: Device.objects.get_or_create by serial
\* (a new row belongs to the given job order), then one available Task with
\* standard_time_seconds = estimated_time or 0.
CreateTask(a, jo, serial, name, type, estimated_time) ==
  LET r == CreateTaskResponse(a, jo)
      found == DeviceOfSerial(serial)
      dev == IF found # 0 THEN found ELSE Len(devices) + 1
  IN
  /\ Len(tasks) < MaxTasks
  /\ IF r.code = 201
       THEN /\ devices' = IF found # 0 THEN devices
                          ELSE Append(devices,
                                 [job_order |-> jo, serial_number |-> serial,
                                  current_status |-> "pending"])
            /\ tasks' = Append(tasks,
                 [job_order |-> jo, device |-> dev, process |-> 0,
                  operation_name |-> name,
                  standard_time_seconds |-> estimated_time,
                  task_type |-> type,
                  technician |-> NoUser, start_time |-> NoTime,
                  end_time |-> NoTime, actual_time_seconds |-> NoTime,
                  status |-> "available"])
       ELSE UNCHANGED <<devices, tasks>>
  /\ UNCHANGED <<now, jobOrders, inspections, testerReviews, supervisorReviews,
                 notifications, reqs>>

(* --------------------- role-scoped task view --------------------------- *)
\* The view without role scoping: every authenticated user sees every Task.
InQueryset_Unscoped(u, task) == TRUE

\* TechnicianTaskViewSet.get_queryset: is the task row in the user's queryset.
InQueryset(u, task) ==
  CASE Role(u) = "technician" ->
         \/ (task.status = "available" /\ task.task_type = "technician")
         \/ (task.technician = u /\ task.status \in {"in_progress", "rejected"})
    [] Role(u) = "quality"    -> task.status = "pending_qa"
    [] Role(u) = "supervisor" -> task.status \in {"tester_approved", "pending_supervisor"}
    [] Role(u) = "tester"     -> task.status = "pending_tester"
    [] Role(u) \in {"planning", "admin"} -> TRUE
    [] OTHER -> FALSE

\* self.get_object(): the row, or Http404.
Found(u, t) == t \in TaskIds /\ InQueryset(u, tasks[t])

\* GET /tasks/ : the ids of the rows of the caller's queryset (all pages).
\* The worker keeps what it answered.
ListTasks(w, a) ==
  /\ reqs[w].pc \in {"idle", "done"}
  /\ IF HasPermission(a, IsTechnicianOrAll)
       THEN reqs' = [reqs EXCEPT ![w] =
              [IdleRequest EXCEPT !.op = "list", !.actor = a, !.code = 200,
                 !.listed = {t \in TaskIds : InQueryset(a, tasks[t])}]]
       ELSE reqs' = [reqs EXCEPT ![w] =
              [IdleRequest EXCEPT !.op = "list", !.actor = a, !.code = 403]]
  /\ UNCHANGED <<now, jobOrders, devices, tasks, inspections, testerReviews,
                 supervisorReviews, notifications>>

(* ------------------------- inspection list ----------------------------- *)
\* InspectionViewSet.get_queryset: the Inspections a role is shown.
InInspectionQueryset(u, inspection) ==
  CASE Role(u) = "quality" -> tasks[inspection.task].status = "pending_qa"
    [] Role(u) \in {"supervisor", "admin"} -> TRUE
    [] Role(u) = "tester" -> tasks[inspection.task].status = "pending_tester"
    [] OTHER -> FALSE

\* GET /inspections/ : the ids of the rows of the caller's queryset (all
\* pages). The worker keeps what it answered.
ListInspections(w, a) ==
  /\ reqs[w].pc \in {"idle", "done"}
  /\ IF HasPermission(a, IsQualityOrTesterOrSupervisorOrAdmin)
       THEN reqs' = [reqs EXCEPT ![w] =
              [IdleRequest EXCEPT !.op = "list_inspections", !.actor = a,
                 !.code = 200,
                 !.listed = {i \in 1..Len(inspections) :
                               InInspectionQueryset(a, inspections[i])}]]
       ELSE reqs' = [reqs EXCEPT ![w] =
              [IdleRequest EXCEPT !.op = "list_inspections", !.actor = a,
                 !.code = 403]]
  /\ UNCHANGED <<now, jobOrders, devices, tasks, inspections, testerReviews,
                 supervisorReviews, notifications>>

(* ------------------------- status summary ------------------------------ *)
\* TaskStatusSummaryView.get: the number of Tasks of every status of
\* STATUS_CHOICES, 0 for a status no Task has.
TaskStatusSummary ==
  [s \in TaskStatuses |-> Cardinality({t \in TaskIds : tasks[t].status = s})]

\* The routes of urlpatterns that start with tasks/, in the order of the
\* list: those of the router (api/v1/ include) come before tasks/summary/.
TaskRoutes == << "task-list", "task-detail", "task-summary" >>

\* The path, as its segments after api/v1/, matches the pattern of the route;
\* the router's detail pattern is tasks/(?P<pk>[^/.]+)/ .
RouteMatches(route, path) ==
  CASE route = "task-list"    -> path = << "tasks" >>
    [] route = "task-detail"  -> Len(path) = 2 /\ path[1] = "tasks"
    [] route = "task-summary" -> path = << "tasks", "summary" >>
    [] OTHER -> FALSE

\* The first route of the list that matches.
Resolve(path) ==
  LET hits == {i \in 1..Len(TaskRoutes) : RouteMatches(TaskRoutes[i], path)} IN
  IF hits = {} THEN "none"
  ELSE TaskRoutes[CHOOSE i \in hits : \A j \in hits : i <= j]

\* GET /api/v1/tasks/summary/ : the view the path resolves to answers. The
\* detail view looks up pk = 'summary', which is no number: Http404.
GetTaskSummaryResponse(a) ==
  LET view == Resolve(<< "tasks", "summary" >>) IN
  IF view = "task-summary"
    THEN Response("summary", a, 0, 200, "", "")
  ELSE IF view = "task-detail"
    THEN IF ~ HasPermission(a, IsTechnicianOrAll)
           THEN Response("summary", a, 0, 403, "detail", "")
           ELSE Response("summary", a, 0, 404, "detail", "")
  ELSE Response("summary", a, 0, 404, "detail", "")

\* The worker keeps what it answered.
GetTaskSummary(w, a) ==
  LET r == GetTaskSummaryResponse(a) IN
  /\ reqs[w].pc \in {"idle", "done"}
  /\ reqs' = [reqs EXCEPT ![w] =
        [IdleRequest EXCEPT !.op = "summary", !.actor = a, !.code = r.code,
           !.summary = IF r.code = 200 THEN TaskStatusSummary ELSE NoSummary]]
  /\ UNCHANGED <<now, jobOrders, devices, tasks, inspections, testerReviews,
                 supervisorReviews, notifications>>

(* ---------------------------- efficiency ------------------------------- *)
\* A rounding that drops the digits after the second decimal.
Round2_Truncated(num, den) == {(100 * num) \div den}

\* round(num / den, 2), in hundredths: the multiple of 0.01 nearest to the
\* quotient. Exactly halfway between two of them, the binary value of the
\* float product decides, and either neighbour can be the result.
Round2(num, den) ==
  LET q == (100 * num) \div den IN
  {h \in {q, q + 1} :
     2 * (IF h * den >= 100 * num THEN h * den - 100 * num
                                  ELSE 100 * num - h * den) <= den}

\* Task.calculate_efficiency: the percentages it can return, in hundredths
\* of a percent; None unless actual_time_seconds is truthy and > 0.
calculate_efficiency(task) ==
  IF /\ task.actual_time_seconds # NoTime
     /\ task.actual_time_seconds # 0
     /\ task.actual_time_seconds > 0
    THEN Round2(task.standard_time_seconds * 100, task.actual_time_seconds)
    ELSE {NoEfficiency}

\* GET /tasks/{id}/ : TaskSerializer of a row of the caller's queryset.
RetrieveTaskResponse(a, t) ==
  IF ~ HasPermission(a, IsTechnicianOrAll)
    THEN Response("retrieve", a, t, 403, "detail", "")
  ELSE IF ~ Found(a, t)
    THEN Response("retrieve", a, t, 404, "detail", "")
  ELSE Response("retrieve", a, t, 200, "", "")

\* The worker keeps what it answered: the row and its serialized efficiency.
RetrieveTask(w, a, t) ==
  LET r == RetrieveTaskResponse(a, t) IN
  /\ reqs[w].pc \in {"idle", "done"}
  /\ IF r.code = 200
       THEN \E e \in calculate_efficiency(tasks[t]) :
              reqs' = [reqs EXCEPT ![w] =
                [IdleRequest EXCEPT !.op = "retrieve", !.actor = a, !.task = t,
                   !.code = 200, !.local = tasks[t], !.efficiency = e]]
       ELSE reqs' = [reqs EXCEPT ![w] =
                [IdleRequest EXCEPT !.op = "retrieve", !.actor = a, !.task = t,
                   !.code = r.code]]
  /\ UNCHANGED <<now, jobOrders, devices, tasks, inspections, testerReviews,
                 supervisorReviews, notifications>>

(* ------------------------- job order progress -------------------------- *)
\* The number of Device rows of job order jo with the given status.
DevicesWithStatus(jo, status) ==
  Cardinality({d \in 1..Len(devices) :
                 devices[d].job_order = jo /\ devices[d].current_status = status})

\* JobOrder.get_progress_percentage: completed devices over the declared
\* total_devices, in hundredths of a percent.
get_progress_percentage(jo) ==
  IF jobOrders[jo].total_devices = 0 THEN {0}
  ELSE Round2(DevicesWithStatus(jo, "completed") * 100,
              jobOrders[jo].total_devices)

\* calculate_job_order_progress: completed devices over the Device rows.
calculate_job_order_progress(jo) ==
  LET total_devices ==
        Cardinality({d \in 1..Len(devices) : devices[d].job_order = jo})
  IN
  IF total_devices = 0
    THEN [progress_percent |-> {0}, total_completed |-> 0,
          total_rejected |-> 0, total_devices |-> 0]
    ELSE [progress_percent |->
            Round2(DevicesWithStatus(jo, "completed") * 100, total_devices),
          total_completed |-> DevicesWithStatus(jo, "completed"),
          total_rejected |-> DevicesWithStatus(jo, "rejected"),
          total_devices |-> total_devices]

(* ------------------------------ alerts --------------------------------- *)
\* The default efficiency threshold of the alerts, in percent.
EFFICIENCY_THRESHOLD == 70

\* check_alerts, efficiency part: the Tasks of the job order with status
\* 'done' and actual_time_seconds > 0, newest first (Meta.ordering); the
\* first one whose efficiency is below the threshold gives the one alert.
\* (The due_date_risk part reads the due date, which is not in the model.)
check_alerts(jo) ==
  LET tasks_query == {t \in TaskIds : /\ tasks[t].job_order = jo
                                      /\ tasks[t].status = "done"
                                      /\ tasks[t].actual_time_seconds > 0}
      low == {t \in tasks_query :
                tasks[t].standard_time_seconds * 100
                  < EFFICIENCY_THRESHOLD * tasks[t].actual_time_seconds}
  IN
  IF low = {} THEN << >>
  ELSE LET t == CHOOSE x \in low : \A y \in low : y <= x IN
       << [type |-> "low_efficiency", task_id |-> t,
           technician_id |-> tasks[t].technician] >>

\* GET /metrics/job-order/{id}/ : supervisors, planning engineers and admins.
GetJobOrderMetricsResponse(a, jo) ==
  IF ~ HasPermission(a, IsSupervisorOrPlanningOrAdmin)
    THEN Response("job_order_metrics", a, jo, 403, "detail", "")
  ELSE IF jo \notin 1..Len(jobOrders)
    THEN Response("job_order_metrics", a, jo, 404, "error", "")
  ELSE Response("job_order_metrics", a, jo, 200, "", "")

\* The worker keeps what it answered: the alerts of the job order.
GetJobOrderMetrics(w, a, jo) ==
  LET r == GetJobOrderMetricsResponse(a, jo) IN
  /\ reqs[w].pc \in {"idle", "done"}
  /\ reqs' = [reqs EXCEPT ![w] =
        [IdleRequest EXCEPT !.op = "job_order_metrics", !.actor = a,
           !.task = jo, !.code = r.code,
           !.alerts = IF r.code = 200 THEN check_alerts(jo) ELSE << >>]]
  /\ UNCHANGED <<now, jobOrders, devices, tasks, inspections, testerReviews,
                 supervisorReviews, notifications>>

(* ------------------------------ start ---------------------------------- *)
\* A start guard that also lets a rejected Task through.
StartRefused_UnlessRejected(task) == task.status \notin {"available", "rejected"}

\* "if task.status != 'available'": the guard of start.
StartRefused(task) == task.status # "available"

\* The fields start assigns and saves.
StartedTask(task, a, time) ==
  [task EXCEPT !.technician = a, !.start_time = time, !.status = "in_progress"]

StartResponse(a, t) ==
  IF ~ HasPermission(a, IsTechnicianOrAll)
    THEN Response("start", a, t, 403, "detail", "")
  ELSE IF ~ Found(a, t)
    THEN Response("start", a, t, 404, "detail", "")
  ELSE IF StartRefused(tasks[t])
    THEN Response("start", a, t, 400, "detail", StatusDisplay(tasks[t].status))
  ELSE Response("start", a, t, 200, "", "")

Start(a, t) ==
  LET r == StartResponse(a, t) IN
  /\ IF r.code = 200
       THEN /\ tasks' = [tasks EXCEPT ![t] = StartedTask(@, a, now)]
            /\ devices' = [devices EXCEPT ![tasks[t].device].current_status = "in_progress"]
       ELSE UNCHANGED <<tasks, devices>>
  /\ UNCHANGED <<now, jobOrders, inspections, testerReviews, supervisorReviews,
                 notifications, reqs>>

(* ------------------------------- end ----------------------------------- *)
\* Seconds rounded to the nearest whole number instead of truncated.
TotalSecondsInt_Rounded(ticks) == (2 * ticks + TicksPerSecond) \div (2 * TicksPerSecond)

\* int(timedelta.total_seconds()): whole seconds, truncated towards zero.
TotalSecondsInt(ticks) ==
  IF ticks >= 0 THEN ticks \div TicksPerSecond
                ELSE -((-ticks) \div TicksPerSecond)

\* An end without the assigned-technician guard.
EndNotAssigned_Never(task, a) == FALSE

\* "if task.technician != user"
EndNotAssigned(task, a) == task.technician # a

\* An end that records the status and the duration and no end_time.
EndedTask_NoEndTime(task, time) ==
  [task EXCEPT !.actual_time_seconds = TotalSecondsInt(time - task.start_time),
               !.status = "pending_qa"]

\* The fields end assigns and saves.
EndedTask(task, time) ==
  [task EXCEPT !.end_time = time,
               !.actual_time_seconds = TotalSecondsInt(time - task.start_time),
               !.status = "pending_qa"]

\* Inspection.objects.create(task, device, inspector=None, decision='pending', ...)
PendingInspection(t, task) ==
  [task |-> t, device |-> task.device, inspector |-> NoUser,
   decision |-> "pending", comments |-> "Awaiting quality inspection"]

\* The three notification loops of end.
EndNotifications(table, t) ==
  NotifyEach(
    NotifyEach(
      NotifyEach(table, ActiveUsersOfRole("quality"), "task_ready_for_inspection", t),
      ActiveUsersOfRole("tester"), "task_ready_for_testing", t),
    ActiveUsersOfRole("supervisor"), "task_completed", t)

EndResponse(a, t) ==
  IF ~ HasPermission(a, IsTechnicianOrAll)
    THEN Response("end", a, t, 403, "detail", "")
  ELSE IF ~ Found(a, t)
    THEN Response("end", a, t, 404, "detail", "")
  ELSE IF tasks[t].status # "in_progress"
    THEN Response("end", a, t, 400, "detail", StatusDisplay(tasks[t].status))
  ELSE IF EndNotAssigned(tasks[t], a)
    THEN Response("end", a, t, 403, "detail", "")
  ELSE IF tasks[t].start_time = NoTime
    THEN Response("end", a, t, 400, "detail", "")
  ELSE Response("end", a, t, 200, "", "")

End(a, t) ==
  LET r == EndResponse(a, t) IN
  /\ IF r.code = 200
       THEN /\ tasks' = [tasks EXCEPT ![t] = EndedTask(@, now)]
            /\ devices' = [devices EXCEPT ![tasks[t].device].current_status = "completed"]
            /\ inspections' = Append(inspections, PendingInspection(t, tasks[t]))
            /\ notifications' = EndNotifications(notifications, t)
       ELSE UNCHANGED <<tasks, devices, inspections, notifications>>
  /\ UNCHANGED <<now, jobOrders, testerReviews, supervisorReviews, reqs>>

(* --------------------------- qa_decision ------------------------------- *)
Decisions == {"pending", "accepted", "rejected"}
SupervisorDecisions == {"accepted", "rejected"}
Comments == {"", "bad"}

\* A validation that accepts a rejection without comments.
RejectionWithoutComments_Never(decision, comments) == FALSE

\* "data['decision'] == 'rejected' and not data.get('comments')"
RejectionWithoutComments(decision, comments) ==
  decision = "rejected" /\ comments = ""

\* InspectionSerializer.validate: "if task.status != 'pending_qa'"
NotReadyForQa(task) == task.status # "pending_qa"

\* A lookup that never finds the pending Inspection.
PendingInspectionOf_None(t) == 0

\* Inspection.objects.filter(task=task, decision='pending')
\*   .order_by('-created_at').first(): its id, or 0 for None.
PendingInspectionOf(t) ==
  LET S == {i \in 1..Len(inspections) :
              inspections[i].task = t /\ inspections[i].decision = "pending"}
  IN IF S = {} THEN 0 ELSE CHOOSE i \in S : \A j \in S : j <= i

QaDecisionResponse(a, t, decision, comments) ==
  IF ~ HasPermission(a, IsQualityOrTesterOrAdmin)
    THEN Response("qa_decision", a, t, 403, "detail", "")
  ELSE IF t \notin TaskIds
    THEN Response("qa_decision", a, t, 400, "task_id", "")
  ELSE IF RejectionWithoutComments(decision, comments)
    THEN Response("qa_decision", a, t, 400, "comments", "")
  ELSE IF NotReadyForQa(tasks[t])
    THEN Response("qa_decision", a, t, 400, "task_id", StatusDisplay(tasks[t].status))
  ELSE Response("qa_decision", a, t, 201, "", "")

\* The inspections table after the update-in-place (or the fallback insert).
InspectionsAfterQa(a, t, decision, comments) ==
  LET i == PendingInspectionOf(t) IN
  IF i # 0
    THEN [inspections EXCEPT ![i] =
            [@ EXCEPT !.inspector = a, !.decision = decision, !.comments = comments]]
    ELSE Append(inspections,
            [task |-> t, device |-> tasks[t].device, inspector |-> a,
             decision |-> decision, comments |-> comments])

QaDecision(a, t, decision, comments) ==
  LET r == QaDecisionResponse(a, t, decision, comments) IN
  /\ IF r.code = 201
       THEN /\ inspections' = InspectionsAfterQa(a, t, decision, comments)
            /\ CASE decision = "accepted" ->
                      /\ tasks' = [tasks EXCEPT ![t].status = "pending_tester"]
                      /\ notifications' = NotifyEach(notifications,
                            ActiveUsersOfRole("tester"), "task_ready_for_testing", t)
                      /\ UNCHANGED devices
                 [] decision = "rejected" ->
                      /\ tasks' = [tasks EXCEPT ![t].status = "rejected"]
                      /\ devices' = [devices EXCEPT
                            ![tasks[t].device].current_status = "rejected"]
                      /\ notifications' = NotifyTechnician(notifications, tasks[t],
                            "task_rejected", t)
                 [] OTHER -> UNCHANGED <<tasks, devices, notifications>>
       ELSE UNCHANGED <<tasks, devices, inspections, notifications>>
  /\ UNCHANGED <<now, jobOrders, testerReviews, supervisorReviews, reqs>>

(* -------------------------- tester_decision ---------------------------- *)
\* A tester validation without the status check.
NotReadyForTester_Never(task) == FALSE

\* TesterReviewSerializer.validate: "if task.status != 'pending_tester'"
NotReadyForTester(task) == task.status # "pending_tester"

TesterDecisionResponse(a, t, decision, comments) ==
  IF ~ HasPermission(a, IsTesterOrAdmin)
    THEN Response("tester_decision", a, t, 403, "detail", "")
  ELSE IF t \notin TaskIds
    THEN Response("tester_decision", a, t, 400, "task_id", "")
  ELSE IF RejectionWithoutComments(decision, comments)
    THEN Response("tester_decision", a, t, 400, "comments", "")
  ELSE IF NotReadyForTester(tasks[t])
    THEN Response("tester_decision", a, t, 400, "task_id", StatusDisplay(tasks[t].status))
  ELSE Response("tester_decision", a, t, 201, "", "")

TesterDecision(a, t, decision, comments) ==
  LET r == TesterDecisionResponse(a, t, decision, comments) IN
  /\ Len(testerReviews) < MaxTesterReviews
  /\ IF r.code = 201
       THEN /\ testerReviews' = Append(testerReviews,
                 [task |-> t, tester |-> a, decision |-> decision])
            /\ CASE decision = "accepted" ->
                      /\ tasks' = [tasks EXCEPT ![t].status = "pending_supervisor"]
                      /\ notifications' = NotifyEach(notifications,
                            ActiveUsersOfRole("supervisor"),
                            "task_ready_for_supervisor_review", t)
                      /\ UNCHANGED devices
                 [] decision = "rejected" ->
                      /\ tasks' = [tasks EXCEPT ![t].status = "rejected"]
                      /\ devices' = [devices EXCEPT
                            ![tasks[t].device].current_status = "rejected"]
                      /\ notifications' = NotifyTechnician(notifications, tasks[t],
                            "task_rejected", t)
                 [] OTHER -> UNCHANGED <<tasks, devices, notifications>>
       ELSE UNCHANGED <<tasks, devices, testerReviews, notifications>>
  /\ UNCHANGED <<now, jobOrders, inspections, supervisorReviews, reqs>>

(* ------------------------ supervisor_decision -------------------------- *)
SupervisorDecisionResponse(a, i) ==
  IF ~ HasPermission(a, IsSupervisorOrAdmin)
    THEN Response("supervisor_decision", a, i, 403, "detail", "")
  ELSE IF i \notin 1..Len(inspections)
    THEN Response("supervisor_decision", a, i, 400, "inspection_id", "")
  ELSE Response("supervisor_decision", a, i, 201, "", "")

\* A supervisor decision that writes completed for an accepted Task.
SupervisorStatus_Completed(decision) ==
  IF decision = "accepted" THEN "completed" ELSE "rejected"

\* The status perform_create writes for a decision.
SupervisorStatus(decision) ==
  IF decision = "accepted" THEN "supervisor_approved" ELSE "rejected"

\* A supervisor decision that always writes the rejected device status.
SupervisorDeviceStatus_Rejected(decision) == "rejected"

\* The device status perform_create writes for a decision.
SupervisorDeviceStatus(decision) ==
  IF decision = "accepted" THEN "completed" ELSE "rejected"

\* A supervisor decision that notifies the technician only.
SupervisorNotifications_TechnicianOnly(table, task, t, decision) ==
  NotifyTechnician(table, task,
     IF decision = "accepted" THEN "task_completed" ELSE "task_rejected", t)

SupervisorNotifications(table, task, t, decision) ==
  IF decision = "accepted"
    THEN NotifyEach(NotifyTechnician(table, task, "task_completed", t),
                    ActiveUsersOfRole("tester"), "task_completed", t)
    ELSE NotifyTechnician(table, task, "task_rejected", t)

SupervisorDecision(a, i, decision) ==
  LET r == SupervisorDecisionResponse(a, i) IN
  /\ Len(supervisorReviews) < MaxSupervisorReviews
  /\ IF r.code = 201
       THEN LET t == inspections[i].task IN
            /\ supervisorReviews' = Append(supervisorReviews,
                 [inspection |-> i, supervisor |-> a, decision |-> decision])
            /\ tasks' = [tasks EXCEPT ![t].status = SupervisorStatus(decision)]
            /\ devices' = [devices EXCEPT
                  ![tasks[t].device].current_status = SupervisorDeviceStatus(decision)]
            /\ notifications' = SupervisorNotifications(notifications, tasks[t], t, decision)
       ELSE UNCHANGED <<tasks, devices, supervisorReviews, notifications>>
  /\ UNCHANGED <<now, jobOrders, inspections, testerReviews, reqs>>

(* ------------- start and end, one store round trip at a time ----------- *)
Free(w) == reqs[w].pc \in {"idle", "done"}

\* start, lines 263-275: get_object and the status guard on the row read;
\* the row object in memory gets technician, start_time and status. A
\* refused request is answered at once and leaves the worker as it was.
StartRead(w, a, t) ==
  LET r == StartResponse(a, t) IN
  /\ Free(w)
  /\ reqs' = IF r.code = 200
       THEN [reqs EXCEPT ![w] =
              [IdleRequest EXCEPT !.op = "start", !.actor = a, !.task = t,
                 !.pc = "save_task", !.local = StartedTask(tasks[t], a, now)]]
       ELSE reqs
  /\ UNCHANGED <<now, jobOrders, devices, tasks, inspections, testerReviews,
                 supervisorReviews, notifications>>

\* start, line 276: task.save(update_fields=[technician, start_time, status]).
StartSaveTask(w) ==
  LET q == reqs[w] IN
  /\ q.op = "start" /\ q.pc = "save_task"
  /\ tasks' = [tasks EXCEPT ![q.task].technician = q.local.technician,
                            ![q.task].start_time = q.local.start_time,
                            ![q.task].status = q.local.status]
  /\ reqs' = [reqs EXCEPT ![w].pc = "save_device"]
  /\ UNCHANGED <<now, jobOrders, devices, inspections, testerReviews,
                 supervisorReviews, notifications>>

\* start, lines 279-282: task.device.save(update_fields=[current_status]).
StartSaveDevice(w) ==
  LET q == reqs[w] IN
  /\ q.op = "start" /\ q.pc = "save_device"
  /\ devices' = [devices EXCEPT ![q.local.device].current_status = "in_progress"]
  /\ reqs' = [reqs EXCEPT ![w] = [q EXCEPT !.pc = "done", !.code = 200,
                                           !.local = NoTask]]
  /\ UNCHANGED <<now, jobOrders, tasks, inspections, testerReviews,
                 supervisorReviews, notifications>>

\* end, lines 297-316: get_object and the three guards on the row read.
EndRead(w, a, t) ==
  LET r == EndResponse(a, t) IN
  /\ Free(w)
  /\ reqs' = IF r.code = 200
       THEN [reqs EXCEPT ![w] =
              [IdleRequest EXCEPT !.op = "end", !.actor = a, !.task = t,
                 !.pc = "atomic", !.local = tasks[t]]]
       ELSE reqs
  /\ UNCHANGED <<now, jobOrders, devices, tasks, inspections, testerReviews,
                 supervisorReviews, notifications>>

\* end, lines 319-393: the transaction.atomic() block, committed as a whole.
\* It saves end_time, actual_time_seconds and status of the row object read
\* before the block, and inserts the Inspection and the Notifications.
EndCommit(w) ==
  LET q == reqs[w]
      ended == EndedTask(q.local, now)
  IN
  /\ q.op = "end" /\ q.pc = "atomic"
  /\ tasks' = [tasks EXCEPT ![q.task].end_time = ended.end_time,
                            ![q.task].actual_time_seconds = ended.actual_time_seconds,
                            ![q.task].status = ended.status]
  /\ devices' = [devices EXCEPT ![q.local.device].current_status = "completed"]
  /\ inspections' = Append(inspections, PendingInspection(q.task, q.local))
  /\ notifications' = EndNotifications(notifications, q.task)
  /\ reqs' = [reqs EXCEPT ![w] = [q EXCEPT !.pc = "done", !.code = 200,
                                           !.local = NoTask]]
  /\ UNCHANGED <<now, jobOrders, testerReviews, supervisorReviews>>

(* ------------------------- the specification --------------------------- *)
\* One JobOrder of one device whose Job has the single process A, worked on
\* by the staff.
Next ==
  \/ Tick
  \/ \E a \in Staff, job \in {"job_a", "job_empty", NoJob}, code \in OrderCodes :
        CreateJobOrder(a, job, code, 1)
  \/ \E a \in Staff, t \in TaskIdInputs : Start(a, t)
  \/ \E a \in Staff, t \in TaskIdInputs : End(a, t)
  \/ \E a \in Staff, t \in TaskIdInputs, d \in Decisions, c \in Comments :
        QaDecision(a, t, d, c)
  \/ \E a \in Staff, t \in TaskIdInputs, d \in Decisions, c \in Comments :
        TesterDecision(a, t, d, c)
  \/ \E a \in Staff, i \in InspectionIdInputs, d \in SupervisorDecisions :
        SupervisorDecision(a, i, d)

Spec == Init /\ [][Next]_vars

\* The same store, with start and end requests of the staff served by
\* MaxWorkers workers, interleaved between their store round trips.
NextConc ==
  \/ Tick
  \/ \E a \in Staff, code \in OrderCodes : CreateJobOrder(a, "job_a", code, 1)
  \/ \E w \in Workers, a \in Staff, t \in TaskIdInputs : StartRead(w, a, t)
  \/ \E w \in Workers : StartSaveTask(w)
  \/ \E w \in Workers : StartSaveDevice(w)
  \/ \E w \in Workers, a \in Staff, t \in TaskIdInputs : EndRead(w, a, t)
  \/ \E w \in Workers : EndCommit(w)

SpecConc == Init /\ [][NextConc]_vars

\* The happy path: the staff start and end Tasks and send only accepted
\* decisions, the supervisor's on a Task that reached pending_supervisor.
NextHappy ==
  \/ Tick
  \/ \E a \in Staff, code \in OrderCodes : CreateJobOrder(a, "job_a", code, 1)
  \/ \E a \in Staff, t \in TaskIdInputs : Start(a, t)
  \/ \E a \in Staff, t \in TaskIdInputs : End(a, t)
  \/ \E a \in Staff, t \in TaskIdInputs, c \in Comments :
        QaDecision(a, t, "accepted", c)
  \/ \E a \in Staff, t \in TaskIdInputs, c \in Comments :
        TesterDecision(a, t, "accepted", c)
  \/ \E a \in Staff, i \in 1..Len(inspections) :
        /\ tasks[inspections[i].task].status = "pending_supervisor"
        /\ SupervisorDecision(a, i, "accepted")

SpecHappy == Init /\ [][NextHappy]_vars

(* ------------- qa_decision, one store round trip at a time ------------- *)
\* InspectionSerializer.validate on the task row read by the serializer;
\* perform_create then works on that row object. A refused request is
\* answered at once and leaves the worker as it was.
QaRead(w, a, t, decision, comments) ==
  LET r == QaDecisionResponse(a, t, decision, comments) IN
  /\ Free(w)
  /\ reqs' = IF r.code = 201
       THEN [reqs EXCEPT ![w] =
              [IdleRequest EXCEPT !.op = "qa_decision", !.actor = a, !.task = t,
                 !.decision = decision, !.comments = comments,
                 !.pc = "atomic", !.local = tasks[t]]]
       ELSE reqs
  /\ UNCHANGED <<now, jobOrders, devices, tasks, inspections, testerReviews,
                 supervisorReviews, notifications>>

\* perform_create, lines 569-613: the transaction.atomic() block, committed
\* as a whole. It looks the pending Inspection up in the store, and saves the
\* status of the row object read before the block.
QaCommit(w) ==
  LET q == reqs[w] IN
  /\ q.op = "qa_decision" /\ q.pc = "atomic"
  /\ inspections' = InspectionsAfterQa(q.actor, q.task, q.decision, q.comments)
  /\ CASE q.decision = "accepted" ->
            /\ tasks' = [tasks EXCEPT ![q.task].status = "pending_tester"]
            /\ notifications' = NotifyEach(notifications,
                  ActiveUsersOfRole("tester"), "task_ready_for_testing", q.task)
            /\ UNCHANGED devices
       [] q.decision = "rejected" ->
            /\ tasks' = [tasks EXCEPT ![q.task].status = "rejected"]
            /\ devices' = [devices EXCEPT
                  ![q.local.device].current_status = "rejected"]
            /\ notifications' = NotifyTechnician(notifications, q.local,
                  "task_rejected", q.task)
       [] OTHER -> UNCHANGED <<tasks, devices, notifications>>
  /\ reqs' = [reqs EXCEPT ![w] = [q EXCEPT !.pc = "done", !.code = 201,
                                           !.local = NoTask]]
  /\ UNCHANGED <<now, jobOrders, testerReviews, supervisorReviews>>

\* The store with qa_decision requests of the staff served by MaxWorkers
\* workers, interleaved between validation and the atomic block.
NextQaConc ==
  \/ Tick
  \/ \E a \in Staff, code \in OrderCodes : CreateJobOrder(a, "job_a", code, 1)
  \/ \E a \in Staff, t \in TaskIdInputs : Start(a, t)
  \/ \E a \in Staff, t \in TaskIdInputs : End(a, t)
  \/ \E w \in Workers, a \in Staff, t \in TaskIdInputs, d \in Decisions,
        c \in Comments : QaRead(w, a, t, d, c)
  \/ \E w \in Workers : QaCommit(w)

SpecQaConc == Init /\ [][NextQaConc]_vars

(* ------------------------- writes that fail ---------------------------- *)
\* start, line 276: task.save raises; nothing was written before it. The
\* request is answered 500.
StartSaveTaskFails(w) ==
  LET q == reqs[w] IN
  /\ q.op = "start" /\ q.pc = "save_task"
  /\ reqs' = [reqs EXCEPT ![w] = [q EXCEPT !.pc = "done", !.code = 500,
                                           !.local = NoTask]]
  /\ UNCHANGED <<now, jobOrders, devices, tasks, inspections, testerReviews,
                 supervisorReviews, notifications>>

\* start, line 280: task.device.save raises. start opens no transaction, so
\* the task row saved at line 276 stays as written.
StartSaveDeviceFails(w) ==
  LET q == reqs[w] IN
  /\ q.op = "start" /\ q.pc = "save_device"
  /\ reqs' = [reqs EXCEPT ![w] = [q EXCEPT !.pc = "done", !.code = 500,
                                           !.local = NoTask]]
  /\ UNCHANGED <<now, jobOrders, devices, tasks, inspections, testerReviews,
                 supervisorReviews, notifications>>

\* end, lines 319-344: a write of the transaction.atomic() block raises; the
\* block is rolled back as a whole.
EndCommitFails(w) ==
  LET q == reqs[w] IN
  /\ q.op = "end" /\ q.pc = "atomic"
  /\ reqs' = [reqs EXCEPT ![w] = [q EXCEPT !.pc = "done", !.code = 500,
                                           !.local = NoTask]]
  /\ UNCHANGED <<now, jobOrders, devices, tasks, inspections, testerReviews,
                 supervisorReviews, notifications>>

\* The store of SpecConc, where a write of a start or an end may fail.
NextFault ==
  \/ NextConc
  \/ \E w \in Workers : StartSaveTaskFails(w)
  \/ \E w \in Workers : StartSaveDeviceFails(w)
  \/ \E w \in Workers : EndCommitFails(w)

SpecFault == Init /\ [][NextFault]_vars

(* --------------------- notification writes that fail ------------------- *)
\* The users the three loops of end call create_notification for.
EndRecipients ==
  ActiveUsersOfRole("quality") \cup ActiveUsersOfRole("tester")
    \cup ActiveUsersOfRole("supervisor")

\* The rows the loops of end write when the writes for the users of failed
\* raise and create_notification returns False for them.
EndNotificationsExcept(table, t, failed) ==
  table (+) SetToBag({x \in BagToSet(EndNotifications(EmptyBag, t)) :
                        x.user \notin failed})

\* What the store does with an exception that create_notification catches
\* inside the transaction.atomic() block of the caller: the block goes on
\* and commits without the row ("swallowed"), or the transaction is marked
\* for rollback by the failed write and the block, left without an
\* exception, is rolled back ("rollback").
FailureOutcomes == {"swallowed", "rollback"}

\* end, lines 319-393, when Notification.objects.create raises for user u.
\* create_notification catches the exception, so end answers 200 either way.
EndCommitNotifyFails(w, u, outcome) ==
  LET q == reqs[w]
      ended == EndedTask(q.local, now)
  IN
  /\ q.op = "end" /\ q.pc = "atomic"
  /\ u \in EndRecipients
  /\ IF outcome = "swallowed"
       THEN /\ tasks' = [tasks EXCEPT ![q.task].end_time = ended.end_time,
                            ![q.task].actual_time_seconds = ended.actual_time_seconds,
                            ![q.task].status = ended.status]
            /\ devices' = [devices EXCEPT ![q.local.device].current_status = "completed"]
            /\ inspections' = Append(inspections, PendingInspection(q.task, q.local))
            /\ notifications' = EndNotificationsExcept(notifications, q.task, {u})
       ELSE UNCHANGED <<tasks, devices, inspections, notifications>>
  /\ reqs' = [reqs EXCEPT ![w] = [q EXCEPT !.pc = "done", !.code = 200,
                                           !.local = NoTask, !.failed = {u}]]
  /\ UNCHANGED <<now, jobOrders, testerReviews, supervisorReviews>>

\* The store with end requests served by MaxWorkers workers, where the write
\* of a Notification may fail.
NextNotifyFault ==
  \/ Tick
  \/ \E a \in Staff, code \in OrderCodes : CreateJobOrder(a, "job_a", code, 1)
  \/ \E a \in Staff, t \in TaskIdInputs : Start(a, t)
  \/ \E w \in Workers, a \in Staff, t \in TaskIdInputs : EndRead(w, a, t)
  \/ \E w \in Workers : EndCommit(w)
  \/ \E w \in Workers, u \in Users, outcome \in FailureOutcomes :
        EndCommitNotifyFails(w, u, outcome)

SpecNotifyFault == Init /\ [][NextNotifyFault]_vars

(* --------------------------- fan-out alone ----------------------------- *)
FanOutOrderCodes == {"JO-001", "JO-002"}

\* JobOrders of 1..MaxTotalDevices devices, of any Job or of none, created
\* by the staff.
NextFanOut ==
  \/ Tick
  \/ \E a \in Staff, job \in Jobs \cup {NoJob}, code \in FanOutOrderCodes,
        n \in 1..MaxTotalDevices : CreateJobOrder(a, job, code, n)

SpecFanOut == Init /\ [][NextFanOut]_vars

(* ------------------- job orders saved again ---------------------------- *)
SaveAgainJobs == {"job_a", "job_empty"}

\* JobOrders created, edited by the staff, and handed to the signal handler
\* a second time.
NextSaveAgain ==
  \/ Tick
  \/ \E a \in Staff, job \in SaveAgainJobs, code \in FanOutOrderCodes,
        n \in 1..MaxTotalDevices : CreateJobOrder(a, job, code, n)
  \/ \E a \in Staff, jo \in 1..Len(jobOrders), job \in SaveAgainJobs,
        code \in FanOutOrderCodes, n \in 1..MaxTotalDevices :
        UpdateJobOrder(a, jo, job, code, n)
  \/ \E jo \in 1..Len(jobOrders) : create_devices_and_tasks_for_job_order(jo)

SpecSaveAgain == Init /\ [][NextSaveAgain]_vars

(* ------------------------ timed work and efficiency -------------------- *)
\* The whole seconds a technician works on a Task.
WorkSeconds == {0, 7, 256, 500, 1000}

\* Time passes while a Task that was just started is worked on: a number of
\* whole seconds and, possibly, a part of the next one.
Elapse(s, part) ==
  /\ \E t \in TaskIds : tasks[t].status = "in_progress" /\ tasks[t].start_time = now
  /\ now' = now + s * TicksPerSecond + part
  /\ UNCHANGED <<jobOrders, devices, tasks, inspections, testerReviews,
                 supervisorReviews, notifications, reqs>>

NextEfficiency ==
  \/ \E a \in Staff, code \in OrderCodes : CreateJobOrder(a, "job_a", code, 1)
  \/ \E a \in Staff, t \in TaskIdInputs : Start(a, t)
  \/ \E s \in WorkSeconds, part \in {0, TicksPerSecond - 1} : Elapse(s, part)
  \/ \E a \in Staff, t \in TaskIdInputs : End(a, t)
  \/ \E a \in Staff, t \in TaskIdInputs : RetrieveTask(1, a, t)
  \/ \E a \in Staff, jo \in 1..(Len(jobOrders) + 1) :
        GetJobOrderMetrics(1, a, jo)

SpecEfficiency == Init /\ [][NextEfficiency]_vars

(* ------------------------ the task lists of the roles ------------------ *)
\* One JobOrder of a technician Task and a quality Task, worked through the
\* stages by the accounts of each stage, and every account listing its Tasks
\* in between.
NextView ==
  \/ \E code \in OrderCodes : CreateJobOrder("pe_1", "job_ab", code, 1)
  \/ \E a \in {"tech_1", "tech_2"}, t \in TaskIdInputs : Start(a, t)
  \/ \E a \in {"tech_1", "tech_2"}, t \in TaskIdInputs : End(a, t)
  \/ \E t \in TaskIdInputs, d \in Decisions, c \in Comments :
        QaDecision("qi_1", t, d, c)
  \/ \E t \in TaskIdInputs, d \in Decisions, c \in Comments :
        TesterDecision("tester_1", t, d, c)
  \/ \E i \in InspectionIdInputs, d \in SupervisorDecisions :
        SupervisorDecision("super_1", i, d)
  \/ \E a \in Actors : ListTasks(1, a)

SpecView == Init /\ [][NextView]_vars

(* ------------------------ the status summary requested ----------------- *)
\* The Tasks of one JobOrder worked through the stages, and every account
\* asking for the status summary in between.
NextSummary ==
  \/ \E code \in OrderCodes : CreateJobOrder("pe_1", "job_ab", code, 1)
  \/ \E a \in {"tech_1", "tech_2"}, t \in TaskIdInputs : Start(a, t)
  \/ \E a \in {"tech_1", "tech_2"}, t \in TaskIdInputs : End(a, t)
  \/ \E t \in TaskIdInputs, d \in Decisions, c \in Comments :
        QaDecision("qi_1", t, d, c)
  \/ \E t \in TaskIdInputs, d \in Decisions, c \in Comments :
        TesterDecision("tester_1", t, d, c)
  \/ \E i \in InspectionIdInputs, d \in SupervisorDecisions :
        SupervisorDecision("super_1", i, d)
  \/ \E a \in Actors : GetTaskSummary(1, a)

SpecSummary == Init /\ [][NextSummary]_vars

(* ---------------------- the inspection lists of the roles -------------- *)
\* The Tasks of one JobOrder worked through the stages, inspected by the
\* quality inspector or by the tester, and every account listing the
\* Inspections in between.
NextInspections ==
  \/ \E code \in OrderCodes : CreateJobOrder("pe_1", "job_a", code, 1)
  \/ \E a \in {"tech_1", "tech_2"}, t \in TaskIdInputs : Start(a, t)
  \/ \E a \in {"tech_1", "tech_2"}, t \in TaskIdInputs : End(a, t)
  \/ \E a \in {"qi_1", "tester_1"}, t \in TaskIdInputs, d \in Decisions,
        c \in Comments : QaDecision(a, t, d, c)
  \/ \E t \in TaskIdInputs, d \in Decisions, c \in Comments :
        TesterDecision("tester_1", t, d, c)
  \/ \E i \in InspectionIdInputs, d \in SupervisorDecisions :
        SupervisorDecision("super_1", i, d)
  \/ \E a \in Actors : ListInspections(1, a)

SpecInspections == Init /\ [][NextInspections]_vars

(* ------------------------ tasks created one by one --------------------- *)
TaskSerials == {SerialNumber("JO-001", 1), OtherSerial}

\* JobOrders with and without fan-out, single Tasks added for a serial, and
\* the Tasks worked and inspected.
NextTasks ==
  \/ \E job \in {"job_a", "job_empty"}, code \in OrderCodes,
        n \in 1..MaxTotalDevices : CreateJobOrder("pe_1", job, code, n)
  \/ \E jo \in 1..(Len(jobOrders) + 1), serial \in TaskSerials :
        CreateTask("pe_1", jo, serial, "A", "technician", 600)
  \/ \E t \in TaskIdInputs : Start("tech_1", t)
  \/ \E t \in TaskIdInputs : End("tech_1", t)
  \/ \E t \in TaskIdInputs, d \in {"accepted", "rejected"} :
        QaDecision("qi_1", t, d, "bad")

SpecTasks == Init /\ [][NextTasks]_vars

(* ------------------------------ claims --------------------------------- *)
DeviceStatusOf(t) == devices[tasks[t].device].current_status

PendingInspectionsOf(t) ==
  {i \in 1..Len(inspections) :
     inspections[i].task = t /\ inspections[i].decision = "pending"}

RECURSIVE RowsIn(_, _)
\* The number of rows of a bag of rows, over the row values S.
RowsIn(table, S) ==
  IF S = {} THEN 0
  ELSE LET x == CHOOSE y \in S : TRUE IN table[x] + RowsIn(table, S \ {x})

\* The number of Notification rows addressed to user u.
NotificationsTo(table, u) ==
  RowsIn(table, {x \in DOMAIN table : x.user = u})

\* A step that changes the state; a step that leaves every variable unchanged
\* satisfies [A]_vars whatever A says.
Changed == vars' # vars

StartSucceeds(a, t) == StartResponse(a, t).code = 200 /\ Start(a, t)
EndSucceeds(a, t) == EndResponse(a, t).code = 200 /\ End(a, t)

\* C1: a Task enters in_progress only from available, pending_qa only from
\* in_progress, pending_tester only from pending_qa, pending_supervisor only
\* from pending_tester and supervisor_approved only from pending_supervisor,
\* so a supervisor_decision approves only a Task in pending_supervisor.
C1_Stage(s) ==
  CASE s = "in_progress"         -> "available"
    [] s = "pending_qa"          -> "in_progress"
    [] s = "pending_tester"      -> "pending_qa"
    [] s = "pending_supervisor"  -> "pending_tester"
    [] s = "supervisor_approved" -> "pending_supervisor"
    [] OTHER                     -> "none"

C1_ApprovedOnlyThroughAllStages ==
  [][\A t \in TaskIds :
       (tasks'[t].status # tasks[t].status /\ C1_Stage(tasks'[t].status) # "none")
         => tasks[t].status = C1_Stage(tasks'[t].status)]_vars

\* C2: rejected is a sink: no request changes the status of a rejected Task.
C2_RejectedIsSink ==
  [][\A t \in TaskIds :
       tasks[t].status = "rejected" => tasks'[t].status = "rejected"]_vars

\* C3: supervisor_approved is terminal: no request changes the status of a
\* supervisor_approved Task, nor the status of its Device.
C3_ApprovedIsTerminal ==
  [][\A t \in TaskIds :
       tasks[t].status = "supervisor_approved"
         => /\ tasks'[t].status = "supervisor_approved"
            /\ devices'[tasks[t].device].current_status = DeviceStatusOf(t)]_vars

\* C4: every start that succeeds found the Task available with no technician,
\* and leaves it in_progress with technician = the actor and start_time = now,
\* and its Device in_progress.
C4_StartContract ==
  [][Changed => \A a \in Actors, t \in TaskIdInputs :
       StartSucceeds(a, t)
         => /\ t \in TaskIds
            /\ tasks[t].status = "available"
            /\ tasks[t].technician = NoUser
            /\ tasks'[t].technician = a
            /\ tasks'[t].start_time = now /\ tasks'[t].start_time # NoTime
            /\ tasks'[t].status = "in_progress"
            /\ devices'[tasks[t].device].current_status = "in_progress"]_vars

C4_Started ==
  \E t \in TaskIds :
     /\ tasks[t].status = "in_progress"
     /\ tasks[t].technician \in Actors
     /\ tasks[t].start_time = now
     /\ DeviceStatusOf(t) = "in_progress"

C5_Sees(a, task) ==
  \/ Role(a) \in {"planning", "admin"}
  \/ Role(a) = "technician" /\ task.technician = a
       /\ task.status \in {"in_progress", "rejected"}
  \/ Role(a) = "quality" /\ task.status = "pending_qa"
  \/ Role(a) = "tester" /\ task.status = "pending_tester"
  \/ Role(a) = "supervisor" /\ task.status = "pending_supervisor"

C5_RestartResponses ==
  \A a \in Actors, t \in TaskIds :
     tasks[t].status # "available"
       => IF C5_Sees(a, tasks[t])
            THEN /\ StartResponse(a, t).code = 400
                 /\ StartResponse(a, t).shown = StatusDisplay(tasks[t].status)
            ELSE StartResponse(a, t).code = 404

C5_StartedOnce ==
  \A t \in TaskIds :
     /\ tasks[t].status # "available" => tasks'[t].status # "available"
     /\ (Changed /\ tasks[t].status # "available")
          => \A a \in Actors : Start(a, t) => UNCHANGED <<tasks, devices>>
     /\ (tasks'[t].status = "in_progress" /\ tasks[t].status # "available")
          => tasks'[t] = tasks[t]

C6_OneStartWins ==
  \A w \in Workers :
     (reqs[w].op = "start" /\ reqs[w].pc = "done" /\ reqs[w].code = 200)
       => /\ tasks[reqs[w].task].technician = reqs[w].actor
          /\ \A v \in Workers \ {w} :
               ~ (/\ reqs[v].op = "start" /\ reqs[v].pc = "done"
                  /\ reqs[v].code = 200
                  /\ reqs[v].task = reqs[w].task
                  /\ reqs[v].actor # reqs[w].actor)

\* C7: an end by an actor who is not the Task's technician fails, and changes
\* no Task, Device, Inspection or Notification.
C7_EndRefused ==
  \A a \in Actors, t \in TaskIds :
     tasks[t].technician # a => EndResponse(a, t).code \in {400, 403, 404}

C7_EndUnchanged ==
  Changed => \A a \in Actors, t \in TaskIds :
     (tasks[t].technician # a /\ End(a, t))
       => UNCHANGED <<tasks, devices, inspections, notifications>>

C7_EndByOtherFails == [] C7_EndRefused /\ [][C7_EndUnchanged]_vars

C7_EndByOtherRefused ==
  \E t \in TaskIds :
     /\ tasks[t].status = "in_progress"
     /\ tasks[t].technician = "tech_1"
     /\ EndResponse("pe_1", t).code = 403
     /\ EndResponse("tech_2", t).code = 404

\* C8: every end that succeeds found the Task in_progress with a start_time
\* and the actor as its technician, and leaves it in pending_qa with
\* end_time = now and actual_time_seconds the whole seconds (floor) from
\* start_time to end_time, its Device completed, and a pending Inspection
\* without inspector for it.
C8_EndContract ==
  [][Changed => \A a \in Actors, t \in TaskIdInputs :
       EndSucceeds(a, t)
         => /\ t \in TaskIds
            /\ tasks[t].status = "in_progress"
            /\ tasks[t].start_time # NoTime
            /\ tasks[t].technician = a
            /\ tasks'[t].end_time = now
            /\ tasks'[t].actual_time_seconds * TicksPerSecond
                 <= tasks'[t].end_time - tasks[t].start_time
            /\ tasks'[t].end_time - tasks[t].start_time
                 < (tasks'[t].actual_time_seconds + 1) * TicksPerSecond
            /\ tasks'[t].status = "pending_qa"
            /\ devices'[tasks[t].device].current_status = "completed"
            /\ \E i \in 1..Len(inspections') :
                 /\ inspections'[i].task = t
                 /\ inspections'[i].decision = "pending"
                 /\ inspections'[i].inspector = NoUser]_vars

C8_EndedWithinASecond ==
  \E t \in TaskIds :
     /\ tasks[t].status = "pending_qa"
     /\ (tasks[t].end_time - tasks[t].start_time) % TicksPerSecond # 0
     /\ tasks[t].actual_time_seconds >= 0
     /\ DeviceStatusOf(t) = "completed"
     /\ PendingInspectionsOf(t) # {}

\* C9: every end that succeeds inserts exactly one Inspection, with decision
\* pending, and exactly one Notification for each active quality, tester and
\* supervisor user, and none for any other user.
C9_EndFanOut ==
  [][Changed => \A a \in Actors, t \in TaskIdInputs :
       EndSucceeds(a, t)
         => /\ Len(inspections') = Len(inspections) + 1
            /\ inspections'[Len(inspections')].task = t
            /\ inspections'[Len(inspections')].decision = "pending"
            /\ SubSeq(inspections', 1, Len(inspections)) = inspections
            /\ \A u \in Users :
                 NotificationsTo(notifications', u) - NotificationsTo(notifications, u)
                   = IF IsActive(u) /\ Role(u) \in {"quality", "tester", "supervisor"}
                       THEN 1 ELSE 0]_vars

C9_EndNotified ==
  \E t \in TaskIds :
     /\ tasks[t].status = "pending_qa"
     /\ Len(inspections) = 1
     /\ NotificationsTo(notifications, "qi_1") = 1
     /\ NotificationsTo(notifications, "tester_1") = 1
     /\ NotificationsTo(notifications, "super_1") = 1
     /\ NotificationsTo(notifications, "qi_2") = 0
     /\ NotificationsTo(notifications, "tech_1") = 0

\* C10: in every reachable state, end requests served at the same time
\* included, a Task in pending_qa has exactly one pending Inspection.
C10_OnePendingInspection ==
  \A t \in TaskIds :
     tasks[t].status = "pending_qa" => Cardinality(PendingInspectionsOf(t)) = 1

\* The Inspection rows of Task t in a table of inspections.
InspectionsOf(table, t) == {i \in 1..Len(table) : table[i].task = t}

QaDecisionSucceeds(a, t, decision, comments) ==
  QaDecisionResponse(a, t, decision, comments).code = 201
    /\ QaDecision(a, t, decision, comments)

TesterDecisionSucceeds(a, t, decision, comments) ==
  TesterDecisionResponse(a, t, decision, comments).code = 201
    /\ TesterDecision(a, t, decision, comments)

\* C11: every qa_decision that succeeds rewrites one pending Inspection of the
\* Task in place, with inspector = the actor and the decision and comments
\* submitted, and inserts no row; no qa_decision, failed ones included,
\* changes the number of Inspection rows of the Task.
C11_QaUpdatesInPlace ==
  [][Changed => \A a \in Actors, t \in TaskIdInputs, d \in Decisions, c \in Comments :
       /\ QaDecisionSucceeds(a, t, d, c)
            => /\ Len(inspections') = Len(inspections)
               /\ \E i \in PendingInspectionsOf(t) :
                    inspections' = [inspections EXCEPT ![i] =
                       [task |-> t, device |-> inspections[i].device,
                        inspector |-> a, decision |-> d, comments |-> c]]
       /\ QaDecision(a, t, d, c)
            => Cardinality(InspectionsOf(inspections', t))
                 = Cardinality(InspectionsOf(inspections, t))]_vars

C11_QaDecided ==
  \E t \in TaskIds :
     /\ tasks[t].status = "pending_tester"
     /\ Cardinality(InspectionsOf(inspections, t)) = 1
     /\ \E i \in InspectionsOf(inspections, t) :
          /\ inspections[i].inspector = "qi_1"
          /\ inspections[i].decision = "accepted"

\* C12: a qa_decision or a tester_decision with decision rejected and empty
\* comments is answered by the validation error (400) and changes no Task,
\* Device, Inspection, TesterReview or Notification.
C12_Refused ==
  \A a \in Actors, t \in TaskIdInputs :
     /\ HasPermission(a, IsQualityOrTesterOrAdmin)
          => QaDecisionResponse(a, t, "rejected", "").code = 400
     /\ HasPermission(a, IsTesterOrAdmin)
          => TesterDecisionResponse(a, t, "rejected", "").code = 400
     /\ QaDecisionResponse(a, t, "rejected", "").code # 201
     /\ TesterDecisionResponse(a, t, "rejected", "").code # 201

C12_Unchanged ==
  Changed => \A a \in Actors, t \in TaskIdInputs :
     (QaDecision(a, t, "rejected", "") \/ TesterDecision(a, t, "rejected", ""))
       => UNCHANGED <<tasks, devices, inspections, testerReviews, notifications>>

C12_RejectionNeedsComments == [] C12_Refused /\ [][C12_Unchanged]_vars

C12_RejectionWithoutCommentsRefused ==
  \E t \in TaskIds :
     /\ tasks[t].status = "pending_tester"
     /\ TesterDecisionResponse("tester_1", t, "rejected", "").err = "comments"
     /\ QaDecisionResponse("qi_1", t, "rejected", "").err = "comments"
     /\ TesterDecisionResponse("tester_1", t, "rejected", "bad").code = 201

\* The number of Notification rows of one type about Task t.
NotificationsOfType(table, type, t) ==
  RowsIn(table, {x \in DOMAIN table : x.type = type /\ x.task = t})

\* C13: every qa_decision with decision rejected and comments that succeeds
\* (the Task was in pending_qa) leaves the Task rejected, its Device rejected,
\* the Task's Inspection rejected with inspector = the actor, and adds exactly
\* one Notification: a task_rejected one to the Task's technician.
C13_QaRejection ==
  [][Changed => \A a \in Actors, t \in TaskIdInputs, c \in Comments \ {""} :
       QaDecisionSucceeds(a, t, "rejected", c)
         => /\ tasks[t].status = "pending_qa"
            /\ tasks'[t].status = "rejected"
            /\ devices'[tasks[t].device].current_status = "rejected"
            /\ \A i \in InspectionsOf(inspections', t) :
                 /\ inspections'[i].decision = "rejected"
                 /\ inspections'[i].inspector = a
            /\ InspectionsOf(inspections', t) # {}
            /\ tasks[t].technician # NoUser
            /\ notifications' = notifications (+)
                 SetToBag({Notification(tasks[t].technician, "task_rejected", t)})
            /\ \A u \in Users :
                 NotificationsTo(notifications', u) - NotificationsTo(notifications, u)
                   = IF u = tasks[t].technician THEN 1 ELSE 0]_vars

C13_QaRejected ==
  \E t \in TaskIds :
     /\ tasks[t].status = "rejected"
     /\ tasks[t].technician = "tech_1"
     /\ DeviceStatusOf(t) = "rejected"
     /\ testerReviews = << >> /\ supervisorReviews = << >>
     /\ \E i \in InspectionsOf(inspections, t) :
          inspections[i].decision = "rejected" /\ inspections[i].inspector = "qi_1"
     /\ NotificationsOfType(notifications, "task_rejected", t) = 1
     /\ NotificationsTo(notifications, "tech_1") = 1

\* C14: a tester_decision on a Task that is not in pending_tester is refused
\* and inserts no TesterReview; one that succeeds inserts exactly one
\* TesterReview with tester = the actor; accepted puts the Task in
\* pending_supervisor and leaves the Device as it was, rejected puts the Task
\* and its Device in rejected.
C14_OnlyPendingTester ==
  \A a \in Actors, t \in TaskIdInputs, d \in Decisions, c \in Comments :
     (t \notin TaskIds \/ tasks[t].status # "pending_tester")
       => TesterDecisionResponse(a, t, d, c).code \in {400, 403}

C14_Applied ==
  Changed => \A a \in Actors, t \in TaskIdInputs, d \in Decisions, c \in Comments :
     /\ (TesterDecision(a, t, d, c)
           /\ TesterDecisionResponse(a, t, d, c).code # 201)
          => UNCHANGED <<testerReviews, tasks, devices>>
     /\ TesterDecisionSucceeds(a, t, d, c)
          => /\ tasks[t].status = "pending_tester"
             /\ testerReviews' = Append(testerReviews,
                   [task |-> t, tester |-> a, decision |-> d])
             /\ d = "accepted"
                  => /\ tasks'[t].status = "pending_supervisor"
                     /\ devices' = devices
             /\ d = "rejected"
                  => /\ tasks'[t].status = "rejected"
                     /\ devices'[tasks[t].device].current_status = "rejected"

C14_TesterDecisionContract == [] C14_OnlyPendingTester /\ [][C14_Applied]_vars

C14_TesterAccepted ==
  \E t \in TaskIds :
     /\ tasks[t].status = "pending_supervisor"
     /\ DeviceStatusOf(t) = "completed"
     /\ testerReviews = <<[task |-> t, tester |-> "tester_1", decision |-> "accepted"]>>

\* The TesterReview rows of Task t.
TesterReviewsOf(t) == {i \in 1..Len(testerReviews) : testerReviews[i].task = t}

\* The SupervisorReview rows on the Inspections of Task t.
SupervisorReviewsOf(t) ==
  {i \in 1..Len(supervisorReviews) :
     inspections[supervisorReviews[i].inspection].task = t}

\* C15: on the happy path a Task that is supervisor_approved has its Device
\* completed, exactly one Inspection and it is accepted, exactly one
\* TesterReview and it is accepted, and exactly one SupervisorReview and it is
\* accepted.
C15_HappyPathEnd ==
  \A t \in TaskIds :
     tasks[t].status = "supervisor_approved"
       => /\ DeviceStatusOf(t) = "completed"
          /\ Cardinality(InspectionsOf(inspections, t)) = 1
          /\ \A i \in InspectionsOf(inspections, t) : inspections[i].decision = "accepted"
          /\ Cardinality(TesterReviewsOf(t)) = 1
          /\ \A i \in TesterReviewsOf(t) : testerReviews[i].decision = "accepted"
          /\ Cardinality(SupervisorReviewsOf(t)) = 1
          /\ \A i \in SupervisorReviewsOf(t) : supervisorReviews[i].decision = "accepted"

C15_Approved ==
  \E t \in TaskIds :
     /\ tasks[t].status = "supervisor_approved"
     /\ tasks[t].technician = "tech_1"
     /\ tasks[t].end_time > tasks[t].start_time
     /\ \E i \in InspectionsOf(inspections, t) : inspections[i].inspector = "qi_1"
     /\ \E i \in TesterReviewsOf(t) : testerReviews[i].tester = "tester_1"
     /\ \E i \in SupervisorReviewsOf(t) : supervisorReviews[i].supervisor = "super_1"

SupervisorDecisionSucceeds(a, i, decision) ==
  SupervisorDecisionResponse(a, i).code = 201 /\ SupervisorDecision(a, i, decision)

\* The active users of a role, as the claims word them.
C16_Active(role) == {u \in Users : IsActive(u) /\ Role(u) = role}

\* The step adds one Notification of the type about Task t for every user
\* of S, and no other Notification.
C16_FanOut(S, type, t) ==
  /\ notifications' = notifications (+) SetToBag({Notification(u, type, t) : u \in S})
  /\ \A u \in Users :
       NotificationsTo(notifications', u) - NotificationsTo(notifications, u)
         = IF u \in S THEN 1 ELSE 0

C16_Stages ==
  Changed =>
    /\ \A a \in Actors, t \in TaskIdInputs, c \in Comments :
         /\ QaDecisionSucceeds(a, t, "accepted", c)
              => C16_FanOut(C16_Active("tester"), "task_ready_for_testing", t)
         /\ TesterDecisionSucceeds(a, t, "accepted", c)
              => C16_FanOut(C16_Active("supervisor"),
                            "task_ready_for_supervisor_review", t)
    /\ \A a \in Actors, i \in 1..Len(inspections) :
         SupervisorDecisionSucceeds(a, i, "accepted")
           => C16_FanOut({tasks[inspections[i].task].technician}
                            \cup C16_Active("tester"),
                         "task_completed", inspections[i].task)

\* What a user has received about an approved Task: one Notification from
\* the end if of an inspecting role, one from the quality accept if a tester,
\* one from the tester accept if a supervisor, one from the supervisor accept
\* if the technician or a tester.
C16_Received(u, t) ==
    (IF u \in C16_Active("quality") \cup C16_Active("tester")
             \cup C16_Active("supervisor") THEN 1 ELSE 0)
  + (IF u \in C16_Active("tester") THEN 1 ELSE 0)
  + (IF u \in C16_Active("supervisor") THEN 1 ELSE 0)
  + (IF u \in {tasks[t].technician} \cup C16_Active("tester") THEN 1 ELSE 0)

C16_Totals ==
  /\ \A x \in DOMAIN notifications : x.type # "task_rejected"
  /\ \A t \in TaskIds :
       tasks[t].status = "supervisor_approved"
         => \A u \in Users : NotificationsTo(notifications, u) = C16_Received(u, t)

\* C16: on the happy path the quality accept notifies every active tester
\* once, the tester accept every active supervisor once, the supervisor
\* accept the technician and every active tester once, each with no other
\* Notification, and no task_rejected Notification is ever written.
C16_HappyPathFanOuts == [] C16_Totals /\ [][C16_Stages]_vars

C16_AllNotified ==
  \E t \in TaskIds :
     /\ tasks[t].status = "supervisor_approved"
     /\ tasks[t].technician = "tech_1"
     /\ NotificationsOfType(notifications, "task_ready_for_testing", t) = 2
     /\ NotificationsOfType(notifications, "task_ready_for_supervisor_review", t) = 1
     /\ NotificationsOfType(notifications, "task_completed", t) = 3
     /\ NotificationsTo(notifications, "tech_1") = 1
     /\ NotificationsTo(notifications, "tester_1") = 3
     /\ NotificationsTo(notifications, "super_1") = 2

\* C17: a start whose write failed has persisted nothing: with no other
\* start on the Task in flight, the Task is not left in_progress for the
\* actor of the failed start while its Device is not in_progress.
C17_FailedStartWritesNothing ==
  \A w \in Workers :
     (/\ reqs[w].op = "start" /\ reqs[w].pc = "done" /\ reqs[w].code = 500
      /\ \A v \in Workers \ {w} :
           reqs[v].task = reqs[w].task => reqs[v].pc \in {"idle", "done"})
       => ~ (/\ tasks[reqs[w].task].status = "in_progress"
             /\ tasks[reqs[w].task].technician = reqs[w].actor
             /\ DeviceStatusOf(reqs[w].task) # "in_progress")

\* C18: when no qa_decision is in flight, every Task has at most one
\* Inspection, is not in pending_tester with its Device rejected, and at
\* most one accepted or rejected qa_decision on it has succeeded.
C18_OneQaDecisionTakesEffect ==
  (\A w \in Workers : reqs[w].pc # "atomic")
    => \A t \in TaskIds :
         /\ Cardinality(InspectionsOf(inspections, t)) <= 1
         /\ ~ (tasks[t].status = "pending_tester" /\ DeviceStatusOf(t) = "rejected")
         /\ \A w, v \in Workers :
              (/\ w # v
               /\ reqs[w].op = "qa_decision" /\ reqs[v].op = "qa_decision"
               /\ reqs[w].task = t /\ reqs[v].task = t
               /\ reqs[w].decision # "pending" /\ reqs[v].decision # "pending"
               /\ reqs[w].pc = "done" /\ reqs[v].pc = "done")
                => ~ (reqs[w].code = 201 /\ reqs[v].code = 201)

\* C19: an end answered 200 although the write of a Notification failed has
\* committed its changes: the Task has left in_progress and has its end_time,
\* its Device is completed, its Inspection exists, and every other recipient
\* has its Notification.
C19_NotificationFailureKeepsTransition ==
  \A w \in Workers :
     (/\ reqs[w].op = "end" /\ reqs[w].pc = "done" /\ reqs[w].code = 200
      /\ reqs[w].failed # {})
       => /\ tasks[reqs[w].task].status # "in_progress"
          /\ tasks[reqs[w].task].end_time # NoTime
          /\ DeviceStatusOf(reqs[w].task) = "completed"
          /\ InspectionsOf(inspections, reqs[w].task) # {}
          /\ \A u \in Users :
               (/\ IsActive(u) /\ Role(u) \in {"quality", "tester", "supervisor"}
                /\ u \notin reqs[w].failed)
                 => NotificationsTo(notifications, u) >= 1

CreateJobOrderSucceeds(a, job, code, n) ==
  /\ CreateJobOrderResponse(a, job, code, n).code = 201
  /\ CreateJobOrder(a, job, code, n)

\* The decimal digits of an index below 10, zero-padded to 4.
C20_Digits(i) == <<0, 0, 0, i>>

\* C20: every creation of a JobOrder of n devices whose Job has p >= 1
\* Processes appends exactly n Devices, with serials order_code-0001 ..
\* order_code-n and status pending, and exactly n * p Tasks, one per
\* (Device, Process) pair, available, without technician, and with the
\* operation_name, standard_time_seconds and task_type of the Process.
C20_FanOut ==
  [][Changed => \A a \in Actors, job \in Jobs, code \in FanOutOrderCodes,
                   n \in 1..MaxTotalDevices :
       (CreateJobOrderSucceeds(a, job, code, n) /\ Len(Processes(job)) >= 1)
         => LET p == Len(Processes(job))
                D == Len(devices)
                T == Len(tasks)
                new == {k \in 1..Len(tasks') : k > T}
            IN
            /\ Len(devices') = D + n
            /\ SubSeq(devices', 1, D) = devices
            /\ \A i \in 1..n :
                 /\ devices'[D + i].serial_number = <<code, C20_Digits(i)>>
                 /\ devices'[D + i].current_status = "pending"
                 /\ devices'[D + i].job_order = Len(jobOrders')
            /\ Len(tasks') = T + n * p
            /\ SubSeq(tasks', 1, T) = tasks
            /\ \A k \in new :
                 /\ tasks'[k].status = "available"
                 /\ tasks'[k].technician = NoUser
                 /\ tasks'[k].device \in (D + 1)..(D + n)
                 /\ tasks'[k].process \in 1..p
                 /\ tasks'[k].operation_name
                      = Processes(job)[tasks'[k].process].operation_name
                 /\ tasks'[k].standard_time_seconds
                      = Processes(job)[tasks'[k].process].standard_time_seconds
                 /\ tasks'[k].task_type
                      = Processes(job)[tasks'[k].process].task_type
            /\ \A i \in 1..n, j \in 1..p :
                 Cardinality({k \in new : /\ tasks'[k].device = D + i
                                           /\ tasks'[k].process = j}) = 1]_vars

C20_TwoDevicesTwoProcesses ==
  /\ Len(jobOrders) = 1 /\ jobOrders[1].total_devices = 2
  /\ Len(devices) = 2 /\ Len(tasks) = 4
  /\ devices[2].serial_number = <<"JO-001", <<0, 0, 0, 2>>>>
  /\ tasks[4].device = 2 /\ tasks[4].operation_name = "B"
  /\ tasks[4].status = "available"

\* C21: every creation of a JobOrder that has no Job, or whose Job has no
\* Processes, inserts the JobOrder and no Device and no Task.
C21_NoProcessesNoFanOut ==
  [][Changed => \A a \in Actors, job \in Jobs \cup {NoJob},
                   code \in FanOutOrderCodes, n \in 1..MaxTotalDevices :
       (/\ CreateJobOrderSucceeds(a, job, code, n)
        /\ (job = NoJob \/ Len(Processes(job)) = 0))
         => /\ Len(jobOrders') = Len(jobOrders) + 1
            /\ devices' = devices
            /\ tasks' = tasks]_vars

C21_OrdersWithoutDevices ==
  /\ Len(jobOrders) = 2
  /\ jobOrders[1].job = NoJob
  /\ jobOrders[2].job = "job_empty"
  /\ jobOrders[2].total_devices = 2
  /\ devices = << >> /\ tasks = << >>

DevicesOf(table, jo) ==
  Cardinality({d \in 1..Len(table) : table[d].job_order = jo})

TasksOfOrder(table, jo) ==
  Cardinality({t \in 1..Len(table) : table[t].job_order = jo})

\* C22: saving an existing JobOrder again creates no Device and no Task, and
\* the generator invoked again for a JobOrder that has its Devices leaves the
\* numbers of Devices and Tasks of that JobOrder as they were.
C22_FanOutNeverDuplicates ==
  [][Changed =>
       /\ \A a \in Actors, jo \in 1..Len(jobOrders), job \in SaveAgainJobs,
             code \in FanOutOrderCodes, n \in 1..MaxTotalDevices :
            UpdateJobOrder(a, jo, job, code, n)
              => devices' = devices /\ tasks' = tasks
       /\ \A jo \in 1..Len(jobOrders) :
            (/\ DevicesOf(devices, jo) > 0
             /\ create_devices_and_tasks_for_job_order(jo))
              => /\ DevicesOf(devices', jo) = DevicesOf(devices, jo)
                 /\ TasksOfOrder(tasks', jo) = TasksOfOrder(tasks, jo)]_vars

\* The efficiency e, in hundredths of a percent, is what the sentence gives
\* for a Task of these times: null without a positive actual time, else
\* standard / actual * 100 to the nearest hundredth.
C23_EfficiencyOf(task, e) ==
  LET s == task.standard_time_seconds
      a == task.actual_time_seconds
      x == s * 10000
      err == IF e * a >= x THEN e * a - x ELSE x - e * a
  IN
  /\ (e # NoEfficiency) <=> (a # NoTime /\ a > 0)
  /\ (e # NoEfficiency) => 2 * err <= a
  /\ (s = 600 /\ a = 500) => e = 12000

\* C23: for every Task, stored or served, efficiency is defined if and only
\* if actual_time_seconds is set and > 0, and then equals
\* standard_time_seconds / actual_time_seconds * 100 rounded to 2 decimals
\* (standard 600 s, actual 500 s: 120.0); otherwise it is null.
C23_Efficiency ==
  /\ \A t \in TaskIds : \A e \in calculate_efficiency(tasks[t]) :
        C23_EfficiencyOf(tasks[t], e)
  /\ \A w \in Workers :
        (reqs[w].op = "retrieve" /\ reqs[w].code = 200)
          => C23_EfficiencyOf(reqs[w].local, reqs[w].efficiency)

C23_Served120 ==
  /\ reqs[1].op = "retrieve" /\ reqs[1].code = 200
  /\ reqs[1].local.standard_time_seconds = 600
  /\ reqs[1].local.actual_time_seconds = 500
  /\ reqs[1].efficiency = 12000

\* The Tasks the sentence shows to user u.
C24_Shown(u, task) ==
  \/ /\ Role(u) = "technician"
     /\ \/ task.status = "available" /\ task.task_type = "technician"
        \/ task.status \in {"in_progress", "rejected"} /\ task.technician = u
  \/ Role(u) = "quality" /\ task.status = "pending_qa"
  \/ Role(u) = "tester" /\ task.status = "pending_tester"
  \/ Role(u) = "supervisor"
       /\ task.status \in {"pending_supervisor", "tester_approved"}
  \/ Role(u) \in {"planning", "admin"}

C25_OnlyTheRoleOfTheStage ==
  [][Changed => \A a \in Actors :
       /\ \A t \in TaskIdInputs :
            (StartSucceeds(a, t) \/ EndSucceeds(a, t))
              => Role(a) = "technician"
       /\ \A t \in TaskIdInputs, d \in Decisions, c \in Comments :
            /\ QaDecisionSucceeds(a, t, d, c) => Role(a) = "quality"
            /\ TesterDecisionSucceeds(a, t, d, c) => Role(a) = "tester"
       /\ \A i \in InspectionIdInputs, d \in SupervisorDecisions :
            SupervisorDecisionSucceeds(a, i, d) => Role(a) = "supervisor"]_vars

\* The kind of an error: the HTTP status and the key of the error body.
C26_Kind(r) == <<r.code, r.err>>

\* A conflict: an error that shows the current status of the Task and is of
\* another kind than the answers for a Task that does not exist and for a
\* rejection without comments.
C26_Conflict(r, task, notFound, noComments) ==
  /\ r.code >= 400
  /\ r.shown = StatusDisplay(task.status)
  /\ C26_Kind(r) # C26_Kind(notFound)
  /\ C26_Kind(r) # C26_Kind(noComments)

\* C26: a start on a Task that is not available, an end on a Task that is
\* not in_progress, a qa_decision on a Task that is not pending_qa and a
\* tester_decision on a Task that is not pending_tester, each sent by a user
\* of the role of that stage, are answered by a conflict error that carries
\* the current status and differs in kind from the validation error for
\* missing rejection comments and from the not-found error.
C26_ErrorKinds ==
  \A a \in Actors, t \in TaskIds :
    LET none == Len(tasks) + 1
        noComments == QaDecisionResponse("qi_1", t, "rejected", "")
    IN
    /\ (Role(a) = "technician" /\ tasks[t].status # "available")
         => C26_Conflict(StartResponse(a, t), tasks[t],
                         StartResponse(a, none), noComments)
    /\ (Role(a) = "technician" /\ tasks[t].status # "in_progress")
         => C26_Conflict(EndResponse(a, t), tasks[t],
                         EndResponse(a, none), noComments)
    /\ (Role(a) = "quality" /\ tasks[t].status # "pending_qa")
         => C26_Conflict(QaDecisionResponse(a, t, "accepted", ""), tasks[t],
                         QaDecisionResponse(a, none, "accepted", ""), noComments)
    /\ (Role(a) = "tester" /\ tasks[t].status # "pending_tester")
         => C26_Conflict(TesterDecisionResponse(a, t, "accepted", ""), tasks[t],
                         TesterDecisionResponse(a, none, "accepted", ""),
                         TesterDecisionResponse(a, t, "rejected", ""))

RECURSIVE C28_Sum(_, _)
C28_Sum(f, S) ==
  IF S = {} THEN 0
  ELSE LET s == CHOOSE x \in S : TRUE IN f[s] + C28_Sum(f, S \ {s})

\* C28: the status summary asked for by an authenticated user of any role is
\* answered with one count for every status of STATUS_CHOICES, each the
\* number of Tasks now in that status (0 for none), and the counts add up to
\* the number of Tasks.
C28_StatusSummary ==
  [][Changed => \A a \in Actors :
       GetTaskSummary(1, a)
         => /\ reqs'[1].code = 200
            /\ DOMAIN reqs'[1].summary = TaskStatuses
            /\ \A s \in TaskStatuses :
                 reqs'[1].summary[s]
                   = Cardinality({t \in TaskIds : tasks[t].status = s})
            /\ C28_Sum(reqs'[1].summary, TaskStatuses) = Len(tasks)]_vars

\* The decisions a user can submit with comments that pass validation.
C29_Submitted(d, c) == d # "rejected" \/ c # ""

\* A tester's inspection decision for a Task in pending_qa, with comments
\* when it rejects, is answered 201.
C29_TesterCanInspect ==
  \A a \in Actors, t \in TaskIds, d \in Decisions, c \in Comments :
    (Role(a) = "tester" /\ tasks[t].status = "pending_qa" /\ C29_Submitted(d, c))
      => QaDecisionResponse(a, t, d, c).code = 201

\* The step of a tester's inspection decision that succeeds puts the tester
\* and the decision on an Inspection of the Task; an accepted decision
\* leaves the Task in the given status.
C29_TesterInspects(statusAfterAccepted) ==
  \A a \in Actors, t \in TaskIdInputs, d \in Decisions, c \in Comments :
    (Role(a) = "tester" /\ QaDecisionSucceeds(a, t, d, c))
      => /\ tasks[t].status = "pending_qa"
         /\ \E i \in 1..Len(inspections') :
              /\ inspections'[i].task = t
              /\ inspections'[i].inspector = a
              /\ inspections'[i].decision = d
         /\ (d = "accepted" => tasks'[t].status = statusAfterAccepted)

C30_TesterSeesOwnInspections ==
  [][Changed => \A a \in Actors :
       (Role(a) = "tester" /\ ListInspections(1, a))
         => /\ reqs'[1].code = 200
            /\ reqs'[1].listed
                 = {i \in 1..Len(inspections) : inspections[i].inspector = a}]_vars

\* C31: the inspection list a quality inspector gets holds every Inspection
\* of the store, whoever its inspector and whatever the status of its Task.
C31_QualitySeesAllInspections ==
  [][Changed => \A a \in Actors :
       (Role(a) = "quality" /\ ListInspections(1, a))
         => /\ reqs'[1].code = 200
            /\ reqs'[1].listed = 1..Len(inspections)]_vars

\* C32: in every reachable state the progress of a JobOrder is its completed
\* Devices over its total devices, times 100 (0 without devices), the
\* rejected count is the number of its rejected Devices, and
\* get_progress_percentage and calculate_job_order_progress give the same
\* percentage.
C32_ProgressAgrees ==
  \A jo \in 1..Len(jobOrders) :
    LET p == calculate_job_order_progress(jo)
        rows == {d \in 1..Len(devices) : devices[d].job_order = jo}
    IN
    /\ p.total_rejected
         = Cardinality({d \in rows : devices[d].current_status = "rejected"})
    /\ rows = {} => p.progress_percent = {0}
    /\ get_progress_percentage(jo) = p.progress_percent

\* The Tasks of job order jo that a technician ended with an actual time > 0
\* and an efficiency below the threshold.
C33_LowEfficiencyTasks(jo) ==
  {t \in TaskIds : /\ tasks[t].job_order = jo
                   /\ tasks[t].end_time # NoTime
                   /\ tasks[t].actual_time_seconds > 0
                   /\ tasks[t].standard_time_seconds * 100
                        < EFFICIENCY_THRESHOLD * tasks[t].actual_time_seconds}

\* C33: the alerts served for a JobOrder hold a low_efficiency alert whenever
\* a Task of the JobOrder was ended by its technician with an actual time > 0
\* and an efficiency below the threshold, and never more than one.
C33_LowEfficiencyAlert ==
  [][Changed => \A a \in Actors, jo \in 1..Len(jobOrders) :
       (GetJobOrderMetricsResponse(a, jo).code = 200
          /\ GetJobOrderMetrics(1, a, jo))
         => LET low == {k \in 1..Len(reqs'[1].alerts) :
                          reqs'[1].alerts[k].type = "low_efficiency"}
            IN
            /\ Cardinality(low) <= 1
            /\ C33_LowEfficiencyTasks(jo) # {} => low # {}]_vars

\* C34: a step adds Device rows only when it creates a JobOrder (the
\* fan-out), so no JobOrder ever has more Devices than its total_devices.
C34_DevicesOnlyByFanOut ==
  [][Changed =>
       /\ Len(devices') # Len(devices) => Len(jobOrders') = Len(jobOrders) + 1
       /\ \A jo \in 1..Len(jobOrders') :
            DevicesOf(devices', jo) <= jobOrders'[jo].total_devices]_vars

\* The fields of a Task that the three decisions leave alone.
C35_WorkFields(task) ==
  << task.technician, task.start_time, task.end_time, task.actual_time_seconds,
     task.standard_time_seconds, task.operation_name, task.task_type >>

\* C35: qa_decision, tester_decision and supervisor_decision leave the
\* technician, start_time, end_time, actual_time_seconds,
\* standard_time_seconds, operation_name and task_type of every Task as they
\* were; start leaves end_time, actual_time_seconds and standard_time_seconds
\* as they were; and the technician of a Task, once set, never changes.
C35_Frame ==
  [][Changed =>
       /\ \A a \in Actors :
            /\ \A t \in TaskIdInputs, d \in Decisions, c \in Comments :
                 (QaDecisionSucceeds(a, t, d, c) \/ TesterDecisionSucceeds(a, t, d, c))
                   => \A u \in TaskIds : C35_WorkFields(tasks'[u]) = C35_WorkFields(tasks[u])
            /\ \A i \in InspectionIdInputs, d \in SupervisorDecisions :
                 SupervisorDecisionSucceeds(a, i, d)
                   => \A u \in TaskIds : C35_WorkFields(tasks'[u]) = C35_WorkFields(tasks[u])
            /\ \A t \in TaskIdInputs :
                 StartSucceeds(a, t)
                   => /\ tasks'[t].end_time = tasks[t].end_time
                      /\ tasks'[t].actual_time_seconds = tasks[t].actual_time_seconds
                      /\ tasks'[t].standard_time_seconds = tasks[t].standard_time_seconds
       /\ \A u \in TaskIds :
            tasks[u].technician # NoUser
              => tasks'[u].technician = tasks[u].technician]_vars

C35_ApprovedWithItsTechnician ==
  /\ Len(tasks) = 1 /\ tasks[1].status = "supervisor_approved"
  /\ tasks[1].technician = "tech_1"
  /\ tasks[1].start_time = 0 /\ tasks[1].end_time = 2
  /\ tasks[1].actual_time_seconds = 1
  /\ tasks[1].standard_time_seconds = 600

\* C36: in every state reached by the workflow operations a Task that is
\* pending_qa, pending_tester, pending_supervisor, supervisor_approved or
\* rejected has a technician, a start_time, an end_time not before it, an
\* actual_time_seconds >= 0 and at least one Inspection, and an available
\* Task has none of them.
C36_WorkedTasksAreComplete ==
  \A t \in TaskIds :
    LET task == tasks[t]
        rows == {i \in 1..Len(inspections) : inspections[i].task = t}
    IN
    /\ task.status \in {"pending_qa", "pending_tester", "pending_supervisor",
                        "supervisor_approved", "rejected"}
         => /\ task.technician # NoUser
            /\ task.start_time # NoTime
            /\ task.end_time # NoTime
            /\ task.end_time >= task.start_time
            /\ task.actual_time_seconds # NoTime
            /\ task.actual_time_seconds >= 0
            /\ rows # {}
    /\ task.status = "available"
         => /\ task.technician = NoUser
            /\ task.start_time = NoTime
            /\ task.end_time = NoTime
            /\ task.actual_time_seconds = NoTime
            /\ rows = {}

C36_RejectedAfterWork ==
  /\ Len(tasks) = 1 /\ tasks[1].status = "rejected"
  /\ tasks[1].technician = "tech_2"
  /\ tasks[1].start_time = 1 /\ tasks[1].end_time = 2
  /\ tasks[1].actual_time_seconds = 0
  /\ Len(inspections) = 1 /\ inspections[1].decision = "rejected"

\* C37: a Device is completed only when none of its Tasks is available or
\* in_progress, so the completed Devices the progress of a JobOrder counts
\* have no unfinished Task.
C37_CompletedDeviceHasNoOpenTask ==
  \A d \in 1..Len(devices) :
    devices[d].current_status = "completed"
      => \A t \in TaskIds :
           tasks[t].device = d => tasks[t].status \notin {"available", "in_progress"}

\* C38: in every reachable state an Inspection has an inspector if and only
\* if its decision is accepted or rejected; none has the decision pending
\* and an inspector while its Task is still pending_qa.
C38_InspectorIffDecided ==
  \A i \in 1..Len(inspections) :
    /\ (inspections[i].inspector # NoUser)
         <=> (inspections[i].decision \in {"accepted", "rejected"})
    /\ ~ (/\ inspections[i].decision = "pending"
          /\ inspections[i].inspector # NoUser
          /\ tasks[inspections[i].task].status = "pending_qa")

\* C39: each Task has at most one TesterReview and at most one
\* SupervisorReview over all its Inspections, and every tester_decision or
\* supervisor_decision that succeeds changes the status of its Task: none
\* adds a review row and leaves the Task in the stage it was decided in.
C39_TesterReviewsOf(t) ==
  {k \in 1..Len(testerReviews) : testerReviews[k].task = t}

C39_SupervisorReviewsOf(t) ==
  {k \in 1..Len(supervisorReviews) :
     inspections[supervisorReviews[k].inspection].task = t}

C39_OneReviewPerTask ==
  \A t \in TaskIds :
    /\ Cardinality(C39_TesterReviewsOf(t)) <= 1
    /\ Cardinality(C39_SupervisorReviewsOf(t)) <= 1

C39_DecisionLeavesStage ==
  /\ \A a \in Actors, t \in TaskIdInputs, d \in Decisions, c \in Comments :
       TesterDecisionSucceeds(a, t, d, c) => tasks'[t].status # tasks[t].status
  /\ \A a \in Actors, i \in 1..Len(inspections), d \in SupervisorDecisions :
       SupervisorDecisionSucceeds(a, i, d)
         => tasks'[inspections[i].task].status # tasks[inspections[i].task].status

C39_ReviewedOnceAndMoved ==
  []C39_OneReviewPerTask /\ [][Changed => C39_DecisionLeavesStage]_vars

====
